---- MODULE Spec2Model ----
(***************************************************************************)
(* Orbu backend: the Acumatica connection pool                             *)
(* (backend/services/connection_pool.py), the endpoint executor            *)
(* (backend/services/endpoint_executor.py) and the log cleanup service     *)
(* (backend/services/log_cleanup.py), run by concurrent request and        *)
(* scheduler threads.  Every action is one step of one thread between two  *)
(* points at which another thread can run (a lock operation, a dictionary  *)
(* access, a database statement, a remote call).                           *)
(***************************************************************************)
EXTENDS Integers, Sequences, FiniteSets, TLC

\* ------------------------------------------------------------------ bounds
NumThreads == 2
NumTenants == 2
\* calls and clock advances explored under Spec
PoolCalls == 3
PoolTicks == 1
\* tenants, calls and clock advances explored under SpecExec
ExecTenants == 1
ExecCalls == 2
ExecTicks == 1
\* tenants, calls, clock advances and Client-table updates explored under
\* SpecGet
GetTenants == 1
GetCalls == 3
GetTicks == 2
GetDbWrites == 1
\* tenants, calls, clock advances and Client-table updates explored under
\* SpecRoute
RouteTenants == 1
RouteCalls == 2
RouteTicks == 1
RouteDbWrites == 1

\* rows in the EndpointExecution table, calls and clock advances explored
\* under SpecCleanup
CleanupRows == 2
CleanupCalls == 2
CleanupTicks == 1
\* Endpoint-table updates explored under SpecSchedule
ScheduleDbWrites == 1
\* tenants, stored rows, calls and clock advances explored under SpecLog
LogTenants == 1
LogRows == 2
LogCalls == 2
LogTicks == 1
\* length of the enumerated service names and calls explored under SpecNames
MaxNameLen == 3
NameCalls == 2
\* parameters of the enumerated signature strings and calls explored under
\* SpecSchema
MaxParams == 2
SchemaCalls == 1
\* tenants and calls explored under SpecCreate
CreateTenants == 1
CreateCalls == 2

\* timedelta(minutes=30), connection_pool.py line 59
IdleWindowMinutes == 30
\* timedelta(hours=...), log_cleanup.py line 39, on a clock in minutes
MinutesPerHour == 60
\* data.get('log_retention_hours', 24), api/endpoints.py line 146
DefaultRetentionHours == 24

Threads == 1..NumThreads
Tenants == 1..NumTenants
NoThread == 0
NoSession == 0

\* What Client.query.get + decrypt can find for a tenant (lines 95-110).
ClientStates == {"active", "inactive", "missing", "undecryptable"}
\* What a ServiceGroup / Endpoint query can find (executor lines 54-90).
RowStates == {"active", "inactive", "missing"}
\* str(e) of an exception raised by the remote client.
RemoteMessages == {"", "remote error"}
\* Endpoint.log_retention_hours as stored (update_endpoint stores
\* data['log_retention_hours'] as sent): a number of hours the cutoff of
\* log_cleanup.py line 39 can be computed from, or a value it cannot be
\* computed from: null (timedelta raises TypeError), or a number of hours
\* reaching before year 1 (the subtraction raises OverflowError)
Hours(h) == [usable |-> TRUE, hours |-> h]
NoCutoff == [usable |-> FALSE, hours |-> 0]
RetentionValues == {Hours(1), Hours(DefaultRetentionHours), NoCutoff}
\* ages, in hours, of the rows found in the table
AgesHours == {1, 2, 25}

VARIABLES
    connections,   \* ConnectionPool._connections: tenant -> [sess, last]
    locks,         \* ConnectionPool._locks: tenant -> holder thread (0 = free)
    globalLock,    \* ConnectionPool._global_lock: holder thread (0 = free)
    sessions,      \* every AcumaticaClient constructed so far, by handle
    clock,         \* datetime.now / time.time, in minutes
    ticks,         \* clock advances left to explore
    dbWrites,      \* Client-table updates left to explore
    clients,       \* the Client table as the pool sees it
    groups,        \* the ServiceGroup row the executor looks up, per tenant
    endpoints,     \* the Endpoint row the executor looks up, per tenant
    retention,     \* Endpoint.log_retention_hours, per endpoint
    executions,    \* the EndpointExecution table (committed rows)
    calls,         \* top-level calls left to explore
    pc,            \* each thread's position
    op,            \* each thread's top-level operation
    arg,           \* each thread's client_id argument
    loc,           \* each thread's local variables
    hist,          \* what each thread's current pool call has done so far
    ret            \* what each thread's last call returned or raised

vars == <<connections, locks, globalLock, sessions, clock, ticks, dbWrites, clients,
          groups, endpoints, retention, executions, calls, pc, op, arg, loc, hist, ret>>

poolVars == <<connections, locks, globalLock>>
dbVars == <<clients, groups, endpoints, retention>>
timeVars == <<clock, ticks, dbWrites>>
callVars == <<calls, op, arg>>

\* ----------------------------------------------------------------- helpers
Put(f, k, v) == [x \in DOMAIN f \cup {k} |-> IF x = k THEN v ELSE f[x]]
Del(f, k) == [x \in DOMAIN f \ {k} |-> f[x]]
Handles == 1..Len(sessions)

\* (deleted: the rows the thread's database transaction has deleted and not
\* yet committed; loaded: the retention values read by Endpoint.query.all();
\* param: the argument of a static helper the thread called)
NoLocals == [acumatica_client |-> NoSession, last_used |-> 0, pending |-> {},
             start_time |-> 0, endpoint |-> 0, loaded |-> <<>>, cutoff_time |-> 0,
             logs_to_delete |-> 0, total_deleted |-> 0, endpoints_processed |-> 0,
             deleted |-> {}, param |-> <<>>, has_lock |-> FALSE]
NoEntry == [sess |-> NoSession, last |-> 0]
\* What a thread's current call has done so far (history, not program state):
\*   with          threads already inside a call for the same tenant when it began
\*   cachedAtBegin whether the pool held an entry for the tenant when it began
\*   seen          the cache entry read at line 56 (or by disconnect at line 153)
\*   checkedAt     the clock at the validity check of line 59
\*   logins        login() calls made, created: the handle constructed
\*   logouts       logout() calls made
\*   stored        the tenant's cache entry as the call's store left it
\*   leftAt        the clock when the call's store ran
\*   written       the EndpointExecution rows the call committed
\*   failedAt      the step of execute_endpoint that failed
\*   old           the session cached for the tenant when the call began
\*   logoutRaised  whether disconnect's logout() raised (line 158)
\*   remote        whether the remote method was invoked, and how it ended
\*   clientAtBegin the tenant's Client row when the call began
\*   cutoffs       the cutoff_time a cleanup pass computed, per endpoint
\*   removed       the rows a cleanup call deleted and committed
\*   key           the client whose API key the request presented (0: none)
NoHist == [with |-> {}, cachedAtBegin |-> FALSE, seen |-> NoEntry, checkedAt |-> 0,
           logins |-> 0, created |-> NoSession, logouts |-> 0, stored |-> NoEntry,
           leftAt |-> 0, written |-> <<>>, failedAt |-> "", old |-> NoSession,
           logoutRaised |-> FALSE, remote |-> "none",
           clientAtBegin |-> "active", cutoffs |-> <<>>, removed |-> {},
           key |-> 0]
NoRet == [kind |-> "none", val |-> 0, error |-> ""]
Handle(s) == [kind |-> "handle", val |-> s, error |-> ""]
Raised(msg) == [kind |-> "error", val |-> 0, error |-> msg]
Bool(b) == [kind |-> "bool", val |-> IF b THEN 1 ELSE 0, error |-> ""]
Response(status, msg) == [kind |-> "response", val |-> status, error |-> msg]
Value(v) == [kind |-> "value", val |-> v, error |-> ""]

Goto(t, l) == pc' = [pc EXCEPT ![t] = l]
SetLoc(t, f, v) == loc' = [loc EXCEPT ![t][f] = v]

\* logout() invoked on handle s
LogoutInvoked(s) == [sessions EXCEPT ![s].logouts = @ + 1]

\* The state after ConnectionPool.__init__ (lines 29-32), with nCalls calls,
\* nTicks clock advances and nWrites Client-table updates still to come.
InitPool(nCalls, nTicks, nWrites) ==
    /\ connections = [c \in {} |-> 0]
    /\ locks = [c \in {} |-> 0]
    /\ globalLock = NoThread
    /\ sessions = <<>>
    /\ clock = 0
    /\ ticks = nTicks
    /\ dbWrites = nWrites
    /\ clients = [c \in Tenants |-> "active"]
    /\ executions = <<>>
    /\ calls = nCalls
    /\ pc = [t \in Threads |-> "idle"]
    /\ op = [t \in Threads |-> "none"]
    /\ arg = [t \in Threads |-> 1]
    /\ loc = [t \in Threads |-> NoLocals]
    /\ hist = [t \in Threads |-> NoHist]
    /\ ret = [t \in Threads |-> NoRet]

DefaultRetention == [c \in Tenants |-> Hours(DefaultRetentionHours)]

Init ==
    /\ InitPool(PoolCalls, PoolTicks, 0)
    /\ groups = [c \in Tenants |-> "active"]
    /\ endpoints = [c \in Tenants |-> "active"]
    /\ retention = DefaultRetention

\* A request thread enters a top-level operation, authenticated by the API key
\* of client k (NoKey: by the browser session, or not at all).
NoKey == 0
BeginWithKey(t, o, c, l, k) ==
    /\ pc[t] = "idle"
    /\ calls > 0
    /\ calls' = calls - 1
    /\ op' = [op EXCEPT ![t] = o]
    /\ arg' = [arg EXCEPT ![t] = c]
    /\ loc' = [loc EXCEPT ![t] = [NoLocals EXCEPT !.start_time = clock]]
    /\ hist' = [u \in Threads |->
                  IF u = t
                    THEN [NoHist EXCEPT
                            !.with = {v \in Threads \ {t} : pc[v] # "idle" /\ arg[v] = c},
                            !.cachedAtBegin = c \in DOMAIN connections,
                            !.old = IF c \in DOMAIN connections
                                      THEN connections[c].sess ELSE NoSession,
                            !.clientAtBegin = clients[c],
                            !.key = k]
                    ELSE [hist[u] EXCEPT !.with = @ \ {t}]]
    /\ ret' = [ret EXCEPT ![t] = NoRet]
    /\ Goto(t, l)
    /\ UNCHANGED <<poolVars, sessions, timeVars, dbVars, executions>>

\* A request thread enters a top-level operation.
Begin(t, o, c, l) == BeginWithKey(t, o, c, l, NoKey)

\* ------------------------------------------------- ConnectionPool.get_connection
\* get_connection hands r back to its caller: the executor (line 94) or the
\* request thread that called the pool directly.
GcLeave(t, r) ==
    /\ ret' = [ret EXCEPT ![t] = r]
    /\ IF op[t] = "execute"
         THEN Goto(t, IF r.kind = "handle" THEN "ex_service" ELSE "ex_except")
         ELSE Goto(t, "idle")

\* GcLockGlobal entering the with block without waiting for the pool-wide lock
GcLockGlobal_NoWait(t) ==
    /\ pc[t] = "gc_lock_global"
    /\ globalLock' = t
    /\ Goto(t, "gc_haslock")
    /\ UNCHANGED <<connections, locks, sessions, timeVars, dbVars, executions,
                   callVars, loc, hist, ret>>

\* line 48: with self._global_lock
GcLockGlobal(t) ==
    /\ pc[t] = "gc_lock_global"
    /\ globalLock = NoThread
    /\ globalLock' = t
    /\ Goto(t, "gc_haslock")
    /\ UNCHANGED <<connections, locks, sessions, timeVars, dbVars, executions,
                   callVars, loc, hist, ret>>

\* line 49: if client_id not in self._locks
GcHasLock(t) ==
    /\ pc[t] = "gc_haslock"
    /\ loc' = [loc EXCEPT ![t].has_lock = arg[t] \in DOMAIN locks]
    /\ Goto(t, "gc_mklock")
    /\ UNCHANGED <<poolVars, sessions, timeVars, dbVars, executions, callVars,
                   hist, ret>>

\* GcMakeLock with the pool-wide lock kept past line 51
GcMakeLock_KeepsGlobalLock(t) ==
    /\ pc[t] = "gc_mklock"
    /\ locks' = IF loc[t].has_lock THEN locks ELSE Put(locks, arg[t], NoThread)
    /\ Goto(t, "gc_acquire")
    /\ UNCHANGED <<connections, globalLock, sessions, timeVars, dbVars, executions,
                   callVars, loc, hist, ret>>

\* lines 50-51: store a new Lock() if the test found none, leave the with block
GcMakeLock(t) ==
    /\ pc[t] = "gc_mklock"
    /\ locks' = IF loc[t].has_lock THEN locks ELSE Put(locks, arg[t], NoThread)
    /\ globalLock' = NoThread
    /\ Goto(t, "gc_acquire")
    /\ UNCHANGED <<connections, sessions, timeVars, dbVars, executions,
                   callVars, loc, hist, ret>>

\* GcAcquire entering the section without waiting for the tenant's lock
GcAcquire_NoWait(t) ==
    /\ pc[t] = "gc_acquire"
    /\ locks' = [locks EXCEPT ![arg[t]] = t]
    /\ Goto(t, "gc_check")
    /\ UNCHANGED <<connections, globalLock, sessions, timeVars, dbVars, executions,
                   callVars, loc, hist, ret>>

\* line 53: with self._locks[client_id]
GcAcquire(t) ==
    /\ pc[t] = "gc_acquire"
    /\ locks[arg[t]] = NoThread
    /\ locks' = [locks EXCEPT ![arg[t]] = t]
    /\ Goto(t, "gc_check")
    /\ UNCHANGED <<connections, globalLock, sessions, timeVars, dbVars, executions,
                   callVars, loc, hist, ret>>

\* line 55: if client_id in self._connections
GcCheck(t) ==
    /\ pc[t] = "gc_check"
    /\ Goto(t, IF arg[t] \in DOMAIN connections THEN "gc_read" ELSE "cc_lookup")
    /\ UNCHANGED <<poolVars, sessions, timeVars, dbVars, executions,
                   callVars, loc, hist, ret>>

\* line 56: acumatica_client, last_used = self._connections[client_id]
\* (KeyError when disconnect deleted the entry since line 55)
GcRead(t) ==
    /\ pc[t] = "gc_read"
    /\ IF arg[t] \in DOMAIN connections
         THEN /\ loc' = [loc EXCEPT ![t].acumatica_client = connections[arg[t]].sess,
                                    ![t].last_used = connections[arg[t]].last]
              /\ hist' = [hist EXCEPT ![t].seen = connections[arg[t]]]
              /\ Goto(t, "gc_valid")
              /\ UNCHANGED <<locks, ret>>
         ELSE /\ locks' = [locks EXCEPT ![arg[t]] = NoThread]
              /\ GcLeave(t, Raised("KeyError"))
              /\ UNCHANGED <<loc, hist>>
    /\ UNCHANGED <<connections, globalLock, sessions, timeVars, dbVars, executions,
                   callVars>>

\* StillValid with the window's end included
StillValid_Inclusive(now, last_used) == now - last_used <= IdleWindowMinutes

\* line 59: now - last_used < timedelta(minutes=30)
StillValid(now, last_used) == now - last_used < IdleWindowMinutes

\* lines 59-68: the validity check; on expiry logout() is invoked on the old client
GcValid(t) ==
    /\ pc[t] = "gc_valid"
    /\ IF StillValid(clock, loc[t].last_used)
         THEN /\ Goto(t, "gc_touch")
              /\ hist' = [hist EXCEPT ![t].checkedAt = clock]
              /\ UNCHANGED sessions
         ELSE /\ sessions' = LogoutInvoked(loc[t].acumatica_client)
              /\ hist' = [hist EXCEPT ![t].checkedAt = clock, ![t].logouts = @ + 1]
              /\ Goto(t, "gc_logout")
    /\ UNCHANGED <<poolVars, timeVars, dbVars, executions, callVars, loc, ret>>

\* lines 61-63: refresh the timestamp, return the cached client
GcTouch(t) ==
    /\ pc[t] = "gc_touch"
    /\ connections' = Put(connections, arg[t],
                          [sess |-> loc[t].acumatica_client, last |-> clock])
    /\ hist' = [hist EXCEPT ![t].stored = connections'[arg[t]], ![t].leftAt = clock]
    /\ locks' = [locks EXCEPT ![arg[t]] = NoThread]
    /\ GcLeave(t, Handle(loc[t].acumatica_client))
    /\ UNCHANGED <<globalLock, sessions, timeVars, dbVars, executions, callVars, loc>>

\* lines 68-70: logout() of the expired client returns or raises (swallowed)
GcLogout(t) ==
    /\ pc[t] = "gc_logout"
    /\ Goto(t, "cc_lookup")
    /\ UNCHANGED <<poolVars, sessions, timeVars, dbVars, executions,
                   callVars, loc, hist, ret>>

\* _create_connection lines 95-131: look the client up, decrypt, construct the
\* AcumaticaClient and invoke login(); or raise
CcLookup(t) ==
    /\ pc[t] = "cc_lookup"
    /\ IF clients[arg[t]] = "active"
         THEN /\ sessions' = Append(sessions,
                     [tenant |-> arg[t], loggedIn |-> FALSE, logouts |-> 0,
                      since |-> clock])
              /\ SetLoc(t, "acumatica_client", Len(sessions) + 1)
              /\ hist' = [hist EXCEPT ![t].logins = @ + 1,
                                      ![t].created = Len(sessions) + 1]
              /\ Goto(t, "cc_login")
              /\ UNCHANGED <<locks, ret>>
         ELSE /\ locks' = [locks EXCEPT ![arg[t]] = NoThread]
              /\ GcLeave(t, Raised(CASE clients[arg[t]] = "missing" -> "Client not found"
                                     [] clients[arg[t]] = "inactive" -> "Client is inactive"
                                     [] OTHER -> "Failed to decrypt client credentials"))
              /\ UNCHANGED <<sessions, loc, hist>>
    /\ UNCHANGED <<connections, globalLock, timeVars, dbVars, executions, callVars>>

\* _create_connection lines 130-137: login() returns, or raises and is re-raised
CcLogin(t) ==
    /\ pc[t] = "cc_login"
    /\ \/ /\ sessions' = [sessions EXCEPT ![loc[t].acumatica_client].loggedIn = TRUE]
          /\ Goto(t, "gc_store")
          /\ UNCHANGED <<locks, ret>>
       \/ \E msg \in RemoteMessages :
             /\ locks' = [locks EXCEPT ![arg[t]] = NoThread]
             /\ GcLeave(t, Raised(msg))
             /\ UNCHANGED sessions
    /\ UNCHANGED <<connections, globalLock, timeVars, dbVars, executions,
                   callVars, loc, hist>>

\* lines 77-79: store the new client, return it
GcStore(t) ==
    /\ pc[t] = "gc_store"
    /\ connections' = Put(connections, arg[t],
                          [sess |-> loc[t].acumatica_client, last |-> clock])
    /\ hist' = [hist EXCEPT ![t].stored = connections'[arg[t]], ![t].leftAt = clock]
    /\ locks' = [locks EXCEPT ![arg[t]] = NoThread]
    /\ GcLeave(t, Handle(loc[t].acumatica_client))
    /\ UNCHANGED <<globalLock, sessions, timeVars, dbVars, executions, callVars, loc>>

get_connection(t) ==
    \/ GcLockGlobal(t) \/ GcHasLock(t) \/ GcMakeLock(t) \/ GcAcquire(t) \/ GcCheck(t) \/ GcRead(t)
    \/ GcValid(t) \/ GcTouch(t) \/ GcLogout(t) \/ CcLookup(t) \/ CcLogin(t)
    \/ GcStore(t)

\* ---------------------------------------------------- ConnectionPool.disconnect
\* disconnect hands its result back: to refresh_connection (line 208), to
\* disconnect_all's loop (line 173) or to the request thread.
DcLeave(t, b) ==
    IF op[t] = "refresh" THEN Goto(t, "gc_lock_global") /\ UNCHANGED ret
    ELSE IF op[t] = "disconnect_all" THEN Goto(t, "da_loop") /\ UNCHANGED ret
    ELSE Goto(t, "idle") /\ ret' = [ret EXCEPT ![t] = Bool(b)]

\* line 149: with self._global_lock
DcLock(t) ==
    /\ pc[t] = "dc_lock"
    /\ globalLock = NoThread
    /\ globalLock' = t
    /\ Goto(t, "dc_check")
    /\ UNCHANGED <<connections, locks, sessions, timeVars, dbVars, executions,
                   callVars, loc, hist, ret>>

\* lines 150-156: not in the pool -> False; else read the entry and invoke logout()
DcCheck(t) ==
    /\ pc[t] = "dc_check"
    /\ IF arg[t] \notin DOMAIN connections
         THEN /\ globalLock' = NoThread
              /\ DcLeave(t, FALSE)
              /\ UNCHANGED <<sessions, loc, hist>>
         ELSE /\ SetLoc(t, "acumatica_client", connections[arg[t]].sess)
              /\ sessions' = LogoutInvoked(connections[arg[t]].sess)
              /\ hist' = [hist EXCEPT ![t].logouts = @ + 1,
                                      ![t].seen = connections[arg[t]]]
              /\ Goto(t, "dc_logout")
              /\ UNCHANGED <<globalLock, ret>>
    /\ UNCHANGED <<connections, locks, timeVars, dbVars, executions, callVars>>

\* DcLogout without the del of line 162
DcLogout_KeepsEntry(t) ==
    /\ pc[t] = "dc_logout"
    /\ \E raised \in BOOLEAN : hist' = [hist EXCEPT ![t].logoutRaised = raised]
    /\ globalLock' = NoThread
    /\ DcLeave(t, TRUE)
    /\ UNCHANGED <<connections, locks, sessions, timeVars, dbVars, executions,
                   callVars, loc>>

\* lines 156-164: logout() returns or raises (caught and logged, line 158-159);
\* delete the entry; True
DcLogout(t) ==
    /\ pc[t] = "dc_logout"
    /\ \E raised \in BOOLEAN : hist' = [hist EXCEPT ![t].logoutRaised = raised]
    /\ connections' = Del(connections, arg[t])
    /\ globalLock' = NoThread
    /\ DcLeave(t, TRUE)
    /\ UNCHANGED <<locks, sessions, timeVars, dbVars, executions, callVars, loc>>

disconnect(t) == DcLock(t) \/ DcCheck(t) \/ DcLogout(t)

\* ------------------------------------------------ ConnectionPool.disconnect_all
\* lines 168-169: snapshot the keys under the pool-wide lock
DaSnapshot(t) ==
    /\ pc[t] = "da_snapshot"
    /\ globalLock = NoThread
    /\ SetLoc(t, "pending", DOMAIN connections)
    /\ Goto(t, "da_loop")
    /\ UNCHANGED <<poolVars, sessions, timeVars, dbVars, executions, callVars, hist, ret>>

\* lines 171-175: disconnect each snapshotted client in turn
DaLoop(t) ==
    /\ pc[t] = "da_loop"
    /\ IF loc[t].pending = {}
         THEN /\ Goto(t, "idle")
              /\ ret' = [ret EXCEPT ![t] = [kind |-> "done", val |-> 0, error |-> ""]]
              /\ UNCHANGED <<loc, arg>>
         ELSE \E c \in loc[t].pending :
              /\ arg' = [arg EXCEPT ![t] = c]
              /\ SetLoc(t, "pending", loc[t].pending \ {c})
              /\ Goto(t, "dc_lock")
              /\ UNCHANGED ret
    /\ UNCHANGED <<poolVars, sessions, timeVars, dbVars, executions, calls, op, hist>>

disconnect_all(t) == DaSnapshot(t) \/ DaLoop(t)

\* ----------------------------------------------- ConnectionPool.get_pool_status
\* line 184: with self._global_lock
PsLock(t) ==
    /\ pc[t] = "ps_lock"
    /\ globalLock = NoThread
    /\ globalLock' = t
    /\ Goto(t, "ps_snapshot")
    /\ UNCHANGED <<connections, locks, sessions, timeVars, dbVars, executions,
                   callVars, loc, hist, ret>>

\* lines 185-196: build the status dict, leave the with block
PsSnapshot(t) ==
    /\ pc[t] = "ps_snapshot"
    /\ globalLock' = NoThread
    /\ ret' = [ret EXCEPT ![t] = [kind |-> "status",
                                  val |-> Cardinality(DOMAIN connections), error |-> ""]]
    /\ Goto(t, "idle")
    /\ UNCHANGED <<connections, locks, sessions, timeVars, dbVars, executions,
                   callVars, loc, hist>>

get_pool_status(t) == PsLock(t) \/ PsSnapshot(t)

\* ------------------------------------------- EndpointExecutor.execute_endpoint
\* str(e) of an exception raised by db.session.commit()
CommitFailed == "commit failed"

\* the primary keys in the EndpointExecution table
RowIds == {executions[i].id : i \in 1..Len(executions)}
\* a primary key no stored row has (default=uuid.uuid4, models.py line 260)
NewRowId == IF RowIds = {} THEN 1
            ELSE 1 + CHOOSE m \in RowIds : \A k \in RowIds : k <= m

\* an EndpointExecution row (lines 136-147 and 170-181)
ExecutionLog(endpoint, duration, status, hasError, msg) ==
    [id |-> NewRowId, endpoint_id |-> endpoint, executed_at |-> clock,
     duration_ms |-> duration, status_code |-> status,
     has_error_message |-> hasError, error_message |-> msg]

\* execute_endpoint returns ({'success': False, 'error': msg}, status) from step
\* `step`
ExFail(t, status, msg, step) ==
    /\ ret' = [ret EXCEPT ![t] = Response(status, msg)]
    /\ hist' = [hist EXCEPT ![t].failedAt = step]
    /\ Goto(t, "idle")

\* ExFindEndpoint without the is_active check of line 86
ExFindEndpoint_SkipsActiveCheck(t) ==
    /\ pc[t] = "ex_endpoint"
    /\ IF endpoints[arg[t]] = "missing"
         THEN ExFail(t, 404, "Endpoint not found", "endpoint") /\ UNCHANGED loc
         ELSE /\ SetLoc(t, "endpoint", arg[t])
              /\ Goto(t, "gc_lock_global")
              /\ UNCHANGED <<ret, hist>>
    /\ UNCHANGED <<poolVars, sessions, timeVars, dbVars, executions, callVars>>

\* ExFindGroup without the is_active check of line 65
ExFindGroup_SkipsActiveCheck(t) ==
    /\ pc[t] = "ex_group"
    /\ IF groups[arg[t]] = "missing"
         THEN ExFail(t, 404, "Service group not found", "group")
         ELSE Goto(t, "ex_endpoint") /\ UNCHANGED <<ret, hist>>
    /\ UNCHANGED <<poolVars, sessions, timeVars, dbVars, executions, callVars, loc>>

\* lines 54-70: find the service group; not found -> 404, inactive -> 403
ExFindGroup(t) ==
    /\ pc[t] = "ex_group"
    /\ IF groups[arg[t]] = "missing"
         THEN ExFail(t, 404, "Service group not found", "group")
         ELSE IF groups[arg[t]] = "inactive"
         THEN ExFail(t, 403, "Service group is inactive", "group")
         ELSE Goto(t, "ex_endpoint") /\ UNCHANGED <<ret, hist>>
    /\ UNCHANGED <<poolVars, sessions, timeVars, dbVars, executions, callVars, loc>>

\* lines 73-94: find the endpoint; not found -> 404, inactive -> 403; else ask
\* the pool for the tenant's connection
ExFindEndpoint(t) ==
    /\ pc[t] = "ex_endpoint"
    /\ IF endpoints[arg[t]] = "missing"
         THEN ExFail(t, 404, "Endpoint not found", "endpoint") /\ UNCHANGED loc
         ELSE /\ SetLoc(t, "endpoint", arg[t])
              /\ IF endpoints[arg[t]] = "inactive"
                   THEN ExFail(t, 403, "Endpoint is inactive", "endpoint")
                   ELSE Goto(t, "gc_lock_global") /\ UNCHANGED <<ret, hist>>
    /\ UNCHANGED <<poolVars, sessions, timeVars, dbVars, executions, callVars>>

\* lines 97-106: getattr(acumatica_client, service_attr_name); missing -> 404
ExGetService(t) ==
    /\ pc[t] = "ex_service"
    /\ \/ Goto(t, "ex_method") /\ UNCHANGED <<ret, hist>>
       \/ ExFail(t, 404, "Service not found", "service")
    /\ UNCHANGED <<poolVars, sessions, timeVars, dbVars, executions, callVars, loc>>

\* lines 109-115: getattr(service_obj, method_name); missing -> 404
ExGetMethod(t) ==
    /\ pc[t] = "ex_method"
    /\ \/ Goto(t, "ex_invoke") /\ UNCHANGED <<ret, hist>>
       \/ ExFail(t, 404, "Method not found", "method")
    /\ UNCHANGED <<poolVars, sessions, timeVars, dbVars, executions, callVars, loc>>

\* lines 118-130: method(**request_body) returns, raises TypeError -> 400, or
\* raises anything else -> 500
ExInvoke(t) ==
    /\ pc[t] = "ex_invoke"
    /\ \/ /\ Goto(t, "ex_log")
          /\ hist' = [hist EXCEPT ![t].remote = "returned"]
          /\ UNCHANGED ret
       \/ \E msg \in RemoteMessages :
             /\ ret' = [ret EXCEPT ![t] = Response(400, "Invalid parameters: " \o msg)]
             /\ hist' = [hist EXCEPT ![t].failedAt = "params", ![t].remote = "raised"]
             /\ Goto(t, "idle")
       \/ \E msg \in RemoteMessages :
             /\ ret' = [ret EXCEPT ![t] = Response(500, "Execution error: " \o msg)]
             /\ hist' = [hist EXCEPT ![t].failedAt = "remote", ![t].remote = "raised"]
             /\ Goto(t, "idle")
    /\ UNCHANGED <<poolVars, sessions, timeVars, dbVars, executions, callVars, loc>>

\* ExLogSuccess returning the envelope without the add and commit of lines 148-149
ExLogSuccess_NoCommit(t) ==
    /\ pc[t] = "ex_log"
    /\ ret' = [ret EXCEPT ![t] = Response(200, "")]
    /\ Goto(t, "idle")
    /\ UNCHANGED <<poolVars, sessions, timeVars, dbVars, executions, callVars, loc, hist>>

\* ExLogSuccess whose commit raises after the 200 row was made durable
ExLogSuccess_RaisesAfterCommit(t) ==
    /\ pc[t] = "ex_log"
    /\ LET row == ExecutionLog(loc[t].endpoint, clock - loc[t].start_time, 200,
                                FALSE, "")
       IN /\ executions' = Append(executions, row)
          /\ hist' = [hist EXCEPT ![t].written = Append(@, row),
                                  ![t].failedAt = "persist"]
    /\ ret' = [ret EXCEPT ![t] = Raised(CommitFailed)]
    /\ Goto(t, "ex_except")
    /\ UNCHANGED <<poolVars, sessions, timeVars, dbVars, callVars, loc>>

\* ExLogSuccess storing its row in place of the rows of the same endpoint
ExLogSuccess_ReplacesRows(t) ==
    /\ pc[t] = "ex_log"
    /\ LET row == ExecutionLog(loc[t].endpoint, clock - loc[t].start_time, 200,
                                FALSE, "")
       IN /\ executions' = Append(SelectSeq(executions,
                                    LAMBDA r : r.endpoint_id # loc[t].endpoint), row)
          /\ hist' = [hist EXCEPT ![t].written = Append(@, row)]
          /\ ret' = [ret EXCEPT ![t] = Response(200, "")]
          /\ Goto(t, "idle")
    /\ UNCHANGED <<poolVars, sessions, timeVars, dbVars, callVars, loc>>

\* lines 132-162: compute the duration, construct the 200 row, add and commit
\* it, return the envelope; when the commit raises the transaction is rolled
\* back, the row is not stored, and the handler of line 164 runs
ExLogSuccess(t) ==
    /\ pc[t] = "ex_log"
    /\ LET row == ExecutionLog(loc[t].endpoint, clock - loc[t].start_time, 200,
                                FALSE, "")
       IN \/ /\ executions' = Append(executions, row)
             /\ hist' = [hist EXCEPT ![t].written = Append(@, row)]
             /\ ret' = [ret EXCEPT ![t] = Response(200, "")]
             /\ Goto(t, "idle")
          \/ /\ ret' = [ret EXCEPT ![t] = Raised(CommitFailed)]
             /\ hist' = [hist EXCEPT ![t].failedAt = "persist"]
             /\ Goto(t, "ex_except")
             /\ UNCHANGED executions
    /\ UNCHANGED <<poolVars, sessions, timeVars, dbVars, callVars, loc>>

\* lines 164-188: an exception reached the outer handler (get_connection or
\* the success row's commit raised): if the endpoint is known construct a 500
\* row, add and commit it; return 500 with str(e).  When the handler's own
\* commit raises, the exception leaves execute_endpoint.
ExExcept(t) ==
    /\ pc[t] = "ex_except"
    /\ LET row == ExecutionLog(loc[t].endpoint, clock - loc[t].start_time, 500,
                                TRUE, ret[t].error)
           step == IF hist[t].failedAt = "" THEN "connection" ELSE hist[t].failedAt
       IN IF loc[t].endpoint = 0
            THEN /\ ret' = [ret EXCEPT ![t] = Response(500, ret[t].error)]
                 /\ hist' = [hist EXCEPT ![t].failedAt = step]
                 /\ UNCHANGED executions
            ELSE \/ /\ executions' = Append(executions, row)
                    /\ hist' = [hist EXCEPT ![t].written = Append(@, row),
                                            ![t].failedAt = step]
                    /\ ret' = [ret EXCEPT ![t] = Response(500, ret[t].error)]
                 \/ /\ ret' = [ret EXCEPT ![t] = Raised(CommitFailed)]
                    /\ hist' = [hist EXCEPT ![t].failedAt = step]
                    /\ UNCHANGED executions
    /\ Goto(t, "idle")
    /\ UNCHANGED <<poolVars, sessions, timeVars, dbVars, callVars, loc>>

execute_endpoint(t) ==
    \/ ExFindGroup(t) \/ ExFindEndpoint(t) \/ ExGetService(t) \/ ExGetMethod(t)
    \/ ExInvoke(t) \/ ExLogSuccess(t) \/ ExExcept(t)

\* ------------------------------------------- LogCleanupService.cleanup_old_logs
\* Expired with rows executed exactly at the cutoff included
Expired_Inclusive(row, cutoff) == row.executed_at <= cutoff

\* the filter of lines 42-45 and 49-52: EndpointExecution.executed_at < cutoff_time
Expired(row, cutoff) == row.executed_at < cutoff
\* the stored rows of endpoint e matching that filter
ExpiredRows(e, cutoff) ==
    {executions[i] : i \in {j \in 1..Len(executions) :
                                /\ executions[j].endpoint_id = e
                                /\ Expired(executions[j], cutoff)}}
\* rows another thread's transaction has deleted and not yet committed: a
\* DELETE that matches one of them waits for that transaction to end
LockedByOthers(t) == UNION {loc[u].deleted : u \in Threads \ {t}}
\* the table without the rows of the given primary keys
WithoutRows(ids) == SelectSeq(executions, LAMBDA r : r.id \notin ids)
\* the next loop iteration of line 37, or the commit of line 60
AfterEndpoint(pending) == IF pending = {} THEN "cl_commit" ELSE "cl_cutoff"
\* str(e) of the exception line 39 raises for such a value
BadHours == "date value out of range"
\* what cleanup_old_logs and cleanup_logs_for_endpoint return
CleanupDone(n) == [kind |-> "cleanup", val |-> n, error |-> ""]
CleanupFailed(msg) == [kind |-> "failure", val |-> 0, error |-> msg]

\* lines 31-35: zero the counters, endpoints = Endpoint.query.all()
ClQuery(t) ==
    /\ pc[t] = "cl_query"
    /\ LET all == {e \in Tenants : endpoints[e] # "missing"}
       IN /\ loc' = [loc EXCEPT ![t].pending = all, ![t].loaded = retention,
                                ![t].total_deleted = 0,
                                ![t].endpoints_processed = 0]
          /\ Goto(t, AfterEndpoint(all))
    /\ UNCHANGED <<poolVars, sessions, timeVars, dbVars, executions, callVars, hist, ret>>

\* lines 37-39: take the next endpoint, cutoff_time = now - timedelta(hours=
\* endpoint.log_retention_hours); raises when no cutoff can be computed
ClCutoff(t) ==
    /\ pc[t] = "cl_cutoff"
    /\ LET e == CHOOSE x \in loc[t].pending : \A y \in loc[t].pending : x <= y
           cutoff == clock - MinutesPerHour * loc[t].loaded[e].hours
       IN IF loc[t].loaded[e].usable
            THEN /\ loc' = [loc EXCEPT ![t].endpoint = e,
                                       ![t].pending = @ \ {e},
                                       ![t].cutoff_time = cutoff]
                 /\ hist' = [hist EXCEPT ![t].cutoffs = Put(@, e, cutoff)]
                 /\ Goto(t, "cl_count")
                 /\ UNCHANGED ret
            ELSE /\ ret' = [ret EXCEPT ![t] = Raised(BadHours)]
                 /\ Goto(t, "cl_except")
                 /\ UNCHANGED <<loc, hist>>
    /\ UNCHANGED <<poolVars, sessions, timeVars, dbVars, executions, callVars>>

\* lines 42-47: count the endpoint's rows older than the cutoff
ClCount(t) ==
    /\ pc[t] = "cl_count"
    /\ LET n == Cardinality(ExpiredRows(loc[t].endpoint, loc[t].cutoff_time))
       IN /\ SetLoc(t, "logs_to_delete", n)
          /\ Goto(t, IF n > 0 THEN "cl_delete" ELSE AfterEndpoint(loc[t].pending))
    /\ UNCHANGED <<poolVars, sessions, timeVars, dbVars, executions, callVars, hist, ret>>

\* lines 49-55: delete the endpoint's rows older than the cutoff (in the
\* thread's transaction), add the count of line 45 to the totals
ClDelete(t) ==
    /\ pc[t] = "cl_delete"
    /\ LET ids == {r.id : r \in ExpiredRows(loc[t].endpoint, loc[t].cutoff_time)}
       IN /\ ids \cap LockedByOthers(t) = {}
          /\ loc' = [loc EXCEPT
                        ![t].deleted = @ \cup ids,
                        ![t].total_deleted = @ + loc[t].logs_to_delete,
                        ![t].endpoints_processed = @ + 1]
    /\ Goto(t, AfterEndpoint(loc[t].pending))
    /\ UNCHANGED <<poolVars, sessions, timeVars, dbVars, executions, callVars, hist, ret>>

\* lines 60-68 with a commit that succeeds: the deletions become durable, the
\* totals are returned
ClCommitted(t) ==
    /\ pc[t] = "cl_commit"
    /\ executions' = WithoutRows(loc[t].deleted)
    /\ hist' = [hist EXCEPT ![t].removed =
                    {executions[i] : i \in {j \in 1..Len(executions) :
                                                executions[j].id \in loc[t].deleted}}]
    /\ SetLoc(t, "deleted", {})
    /\ ret' = [ret EXCEPT ![t] = CleanupDone(loc[t].total_deleted)]
    /\ Goto(t, "idle")
    /\ UNCHANGED <<poolVars, sessions, timeVars, dbVars, callVars>>

\* line 60 raising: db.session.commit() fails
ClCommitRaises(t) ==
    /\ pc[t] = "cl_commit"
    /\ ret' = [ret EXCEPT ![t] = Raised(CommitFailed)]
    /\ Goto(t, "cl_except")
    /\ UNCHANGED <<poolVars, sessions, timeVars, dbVars, executions, callVars, loc, hist>>

\* ClExcept committing instead of rolling back
ClExcept_Commits(t) ==
    /\ pc[t] = "cl_except"
    /\ executions' = WithoutRows(loc[t].deleted)
    /\ SetLoc(t, "deleted", {})
    /\ ret' = [ret EXCEPT ![t] = CleanupFailed(ret[t].error)]
    /\ Goto(t, "idle")
    /\ UNCHANGED <<poolVars, sessions, timeVars, dbVars, callVars, hist>>

\* lines 70-76: db.session.rollback(), return {'success': False, 'error': str(e)}
ClExcept(t) ==
    /\ pc[t] = "cl_except"
    /\ SetLoc(t, "deleted", {})
    /\ ret' = [ret EXCEPT ![t] = CleanupFailed(ret[t].error)]
    /\ Goto(t, "idle")
    /\ UNCHANGED <<poolVars, sessions, timeVars, dbVars, executions, callVars, hist>>

\* a pass against a database whose commit succeeds
cleanup_pass(t) ==
    ClQuery(t) \/ ClCutoff(t) \/ ClCount(t) \/ ClDelete(t) \/ ClCommitted(t)
    \/ ClExcept(t)

cleanup_old_logs(t) == cleanup_pass(t) \/ ClCommitRaises(t)

\* ---------------------------------- LogCleanupService.cleanup_logs_for_endpoint
\* lines 90-98: look the endpoint up, compute its cutoff
CoGet(t) ==
    /\ pc[t] = "co_get"
    /\ LET cutoff == clock - MinutesPerHour * retention[arg[t]].hours
       IN IF endpoints[arg[t]] = "missing"
            THEN /\ ret' = [ret EXCEPT ![t] = CleanupFailed("Endpoint not found")]
                 /\ Goto(t, "idle")
                 /\ UNCHANGED <<loc, hist>>
            ELSE IF retention[arg[t]].usable
            THEN /\ loc' = [loc EXCEPT ![t].endpoint = arg[t],
                                       ![t].cutoff_time = cutoff]
                 /\ hist' = [hist EXCEPT ![t].cutoffs = Put(@, arg[t], cutoff)]
                 /\ Goto(t, "co_delete")
                 /\ UNCHANGED ret
            ELSE /\ ret' = [ret EXCEPT ![t] = Raised(BadHours)]
                 /\ Goto(t, "co_except")
                 /\ UNCHANGED <<loc, hist>>
    /\ UNCHANGED <<poolVars, sessions, timeVars, dbVars, executions, callVars>>

\* lines 101-104: deleted_count = ...delete()
CoDelete(t) ==
    /\ pc[t] = "co_delete"
    /\ LET ids == {r.id : r \in ExpiredRows(loc[t].endpoint, loc[t].cutoff_time)}
       IN /\ ids \cap LockedByOthers(t) = {}
          /\ loc' = [loc EXCEPT ![t].deleted = ids,
                                ![t].total_deleted = Cardinality(ids)]
    /\ Goto(t, "co_commit")
    /\ UNCHANGED <<poolVars, sessions, timeVars, dbVars, executions, callVars, hist, ret>>

\* lines 106-113: commit, return deleted_count; or the commit raises
CoCommit(t) ==
    /\ pc[t] = "co_commit"
    /\ \/ /\ executions' = WithoutRows(loc[t].deleted)
          /\ hist' = [hist EXCEPT ![t].removed =
                          {executions[i] : i \in {j \in 1..Len(executions) :
                                                      executions[j].id \in loc[t].deleted}}]
          /\ SetLoc(t, "deleted", {})
          /\ ret' = [ret EXCEPT ![t] = CleanupDone(loc[t].total_deleted)]
          /\ Goto(t, "idle")
       \/ /\ ret' = [ret EXCEPT ![t] = Raised(CommitFailed)]
          /\ Goto(t, "co_except")
          /\ UNCHANGED <<executions, loc, hist>>
    /\ UNCHANGED <<poolVars, sessions, timeVars, dbVars, callVars>>

\* lines 115-121: rollback, return the failure
CoExcept(t) ==
    /\ pc[t] = "co_except"
    /\ SetLoc(t, "deleted", {})
    /\ ret' = [ret EXCEPT ![t] = CleanupFailed(ret[t].error)]
    /\ Goto(t, "idle")
    /\ UNCHANGED <<poolVars, sessions, timeVars, dbVars, executions, callVars, hist>>

cleanup_logs_for_endpoint(t) == CoGet(t) \/ CoDelete(t) \/ CoCommit(t) \/ CoExcept(t)

\* ------------------------------------------------------------------ environment
\* The clock advances: by just under the idle window, or by the idle window.
Tick ==
    /\ ticks > 0
    /\ \E d \in {IdleWindowMinutes - 1, IdleWindowMinutes} : clock' = clock + d
    /\ ticks' = ticks - 1
    /\ UNCHANGED <<poolVars, sessions, dbWrites, dbVars, executions, callVars, pc, loc,
                   hist, ret>>

\* The Client row of tenant c changes: deactivated or re-activated
\* (update_client, activate_client, deactivate_client), deleted (delete_client),
\* or its credentials stop decrypting.
ClientRowChanges(c, st) ==
    /\ dbWrites > 0
    /\ st # clients[c]
    /\ clients' = [clients EXCEPT ![c] = st]
    /\ dbWrites' = dbWrites - 1
    /\ UNCHANGED <<poolVars, sessions, clock, ticks, groups, endpoints, retention,
                   executions, callVars, pc, loc, hist, ret>>

\* ---------------------------------------------------------------- request threads
CallGetConnection(t) == \E c \in Tenants : Begin(t, "get_connection", c, "gc_lock_global")
CallDisconnect(t) == \E c \in Tenants : Begin(t, "disconnect", c, "dc_lock")
\* refresh_connection lines 208-209: disconnect, then get_connection
CallRefreshConnection(t) == \E c \in Tenants : Begin(t, "refresh", c, "dc_lock")
CallDisconnectAll(t) == Begin(t, "disconnect_all", 1, "da_snapshot")
CallGetPoolStatus(t) == Begin(t, "get_pool_status", 1, "ps_lock")

PoolStep(t) == get_connection(t) \/ disconnect(t) \/ disconnect_all(t) \/ get_pool_status(t)

Next ==
    \/ \E t \in Threads :
          \/ CallGetConnection(t) \/ CallDisconnect(t) \/ CallRefreshConnection(t)
          \/ CallDisconnectAll(t) \/ CallGetPoolStatus(t)
          \/ PoolStep(t)
    \/ Tick

\* The pool under every interleaving of its five operations.
Spec == Init /\ [][Next]_vars

\* Concurrent get_connection calls alone, for the first GetTenants tenants, over
\* a changing Client table.
InitGet ==
    /\ InitPool(GetCalls, GetTicks, GetDbWrites)
    /\ groups = [c \in Tenants |-> "active"]
    /\ endpoints = [c \in Tenants |-> "active"]
    /\ retention = DefaultRetention

NextGet ==
    \/ \E t \in Threads :
          \/ \E c \in 1..GetTenants : Begin(t, "get_connection", c, "gc_lock_global")
          \/ get_connection(t)
    \/ Tick
    \/ \E c \in 1..GetTenants, st \in ClientStates : ClientRowChanges(c, st)

SpecGet == InitGet /\ [][NextGet]_vars

\* Concurrent execute_endpoint calls for the first ExecTenants tenants, whose
\* service group and endpoint rows may be active, inactive or missing.
InitExec ==
    /\ InitPool(ExecCalls, ExecTicks, 0)
    /\ groups \in [Tenants -> RowStates]
    /\ endpoints \in [Tenants -> RowStates]
    /\ \A c \in Tenants \ (1..ExecTenants) :
          groups[c] = "active" /\ endpoints[c] = "active"
    /\ retention = DefaultRetention

NextExec ==
    \/ \E t \in Threads :
          \/ \E c \in 1..ExecTenants : Begin(t, "execute", c, "ex_group")
          \/ execute_endpoint(t)
          \/ get_connection(t)
    \/ Tick

SpecExec == InitExec /\ [][NextExec]_vars

\* execute_endpoint for a tenant whose service group or endpoint cannot be
\* resolved, next to calls for a tenant whose rows are active
InitResolve ==
    /\ InitExec
    /\ \A c \in 1..ExecTenants : groups[c] # "active" \/ endpoints[c] # "active"

NextResolve ==
    \/ \E t \in Threads :
          \/ \E c \in Tenants : Begin(t, "execute", c, "ex_group")
          \/ execute_endpoint(t)
          \/ get_connection(t)
    \/ Tick

SpecResolve == InitResolve /\ [][NextResolve]_vars

\* ------------------------------------------------------------------ routes
\* A route answers without calling the executor.
RouteRejects(t, status, msg) ==
    /\ pc[t] = "idle"
    /\ calls > 0
    /\ calls' = calls - 1
    /\ op' = [op EXCEPT ![t] = "rejected"]
    /\ ret' = [ret EXCEPT ![t] = Response(status, msg)]
    /\ UNCHANGED <<poolVars, sessions, timeVars, dbVars, executions, arg, pc, loc, hist>>

\* api/endpoints.py lines 518-549, POST /endpoints/<id>/test: look the
\* endpoint up, call execute_endpoint with its client_id
test_endpoint(t, c) ==
    IF endpoints[c] = "missing"
      THEN RouteRejects(t, 404, "Endpoint not found")
      ELSE Begin(t, "execute", c, "ex_group")

\* auth.py lines 63-83, require_api_key: the client that owns the presented
\* key must exist and be active
ApiKeyAccepted(k) == clients[k] \in {"active", "undecryptable"}

\* api/endpoints.py lines 556-602, the external route: the key of client k is
\* checked, then execute_endpoint runs with the client_id c of the URL
external_execute(t, c, k) ==
    IF clients[k] = "missing" THEN RouteRejects(t, 401, "Invalid API key")
    ELSE IF ~ApiKeyAccepted(k) THEN RouteRejects(t, 403, "Client is inactive")
    ELSE BeginWithKey(t, "execute", c, "ex_group", k)

\* api/clients.py lines 637-715: activate_client / deactivate_client set
\* is_active and commit; the pool is not touched.
SetClientActive(c, active) ==
    /\ clients[c] \in {"active", "inactive"}
    /\ ClientRowChanges(c, IF active THEN "active" ELSE "inactive")

\* Calls through the two routes for the first RouteTenants tenants, with the
\* key of any client, while clients are activated and deactivated.
InitRoute ==
    /\ InitPool(RouteCalls, RouteTicks, RouteDbWrites)
    /\ groups = [c \in Tenants |-> "active"]
    /\ endpoints = [c \in Tenants |-> "active"]
    /\ retention = DefaultRetention

NextRoute ==
    \/ \E t \in Threads :
          \/ \E c \in 1..RouteTenants : test_endpoint(t, c)
          \/ \E c \in 1..RouteTenants, k \in Tenants : external_execute(t, c, k)
          \/ execute_endpoint(t)
          \/ get_connection(t)
    \/ \E c \in Tenants, active \in BOOLEAN : SetClientActive(c, active)
    \/ Tick

SpecRoute == InitRoute /\ [][NextRoute]_vars

\* ------------------------------------------------------------- log retention
\* a row found in the table: key i, endpoint e, executed at minute `at`
StoredRow(i, e, at) ==
    [id |-> i, endpoint_id |-> e, executed_at |-> at, duration_ms |-> 0,
     status_code |-> 200, has_error_message |-> FALSE, error_message |-> ""]

\* the clock when the exploration starts: late enough for the oldest row
StartOfCleanup == MinutesPerHour * (1 + CHOOSE a \in AgesHours : \A b \in AgesHours : b <= a)

\* An empty pool, nRows rows of any endpoint and age in the table, and any
\* retention value stored for each endpoint.
InitTable(nRows, nCalls, nTicks, nWrites) ==
    /\ connections = [c \in {} |-> 0]
    /\ locks = [c \in {} |-> 0]
    /\ globalLock = NoThread
    /\ sessions = <<>>
    /\ clock = StartOfCleanup
    /\ ticks = nTicks
    /\ dbWrites = nWrites
    /\ clients = [c \in Tenants |-> "active"]
    /\ groups = [c \in Tenants |-> "active"]
    /\ endpoints = [c \in Tenants |-> "active"]
    /\ retention \in [Tenants -> RetentionValues]
    /\ \E es \in [1..nRows -> Tenants], ages \in [1..nRows -> AgesHours] :
          executions = [i \in 1..nRows |->
                          StoredRow(i, es[i], StartOfCleanup - MinutesPerHour * ages[i])]
    /\ calls = nCalls
    /\ pc = [t \in Threads |-> "idle"]
    /\ op = [t \in Threads |-> "none"]
    /\ arg = [t \in Threads |-> 1]
    /\ loc = [t \in Threads |-> NoLocals]
    /\ hist = [t \in Threads |-> NoHist]
    /\ ret = [t \in Threads |-> NoRet]

InitCleanup == InitTable(CleanupRows, CleanupCalls, CleanupTicks, 0)

\* Cleanup passes and single-endpoint cleanups running concurrently.
NextCleanup ==
    \/ \E t \in Threads :
          \/ Begin(t, "cleanup", 1, "cl_query")
          \/ \E e \in Tenants : Begin(t, "cleanup_one", e, "co_get")
          \/ cleanup_old_logs(t)
          \/ cleanup_logs_for_endpoint(t)
    \/ Tick

SpecCleanup == InitCleanup /\ [][NextCleanup]_vars

\* execute_endpoint calls for the first LogTenants tenants running concurrently
\* with cleanup passes and single-endpoint cleanups, every endpoint keeping
\* its rows for one hour and the stored rows being one or two hours old.
InitLog ==
    /\ InitTable(LogRows, LogCalls, LogTicks, 0)
    /\ retention = [c \in Tenants |-> Hours(1)]
    /\ \A i \in 1..LogRows :
          executions[i].executed_at >= StartOfCleanup - MinutesPerHour * 2

NextLog ==
    \/ \E t \in Threads :
          \/ \E c \in 1..LogTenants : Begin(t, "execute", c, "ex_group")
          \/ Begin(t, "cleanup", 1, "cl_query")
          \/ \E e \in Tenants : Begin(t, "cleanup_one", e, "co_get")
          \/ execute_endpoint(t)
          \/ get_connection(t)
          \/ cleanup_old_logs(t)
          \/ cleanup_logs_for_endpoint(t)
    \/ Tick

SpecLog == InitLog /\ [][NextLog]_vars

\* app.py lines 113-125: the interval job starts a pass whenever the
\* scheduler's thread is free (one instance of the job at a time)
SchedulerFires(t) ==
    /\ pc[t] = "idle"
    /\ op' = [op EXCEPT ![t] = "cleanup"]
    /\ loc' = [loc EXCEPT ![t] = [NoLocals EXCEPT !.start_time = clock]]
    /\ hist' = [hist EXCEPT ![t] = NoHist]
    /\ ret' = [ret EXCEPT ![t] = NoRet]
    /\ Goto(t, "cl_query")
    /\ UNCHANGED <<poolVars, sessions, timeVars, dbVars, executions, calls, arg>>

\* api/endpoints.py lines 349-350: update_endpoint stores
\* data['log_retention_hours'] as sent
update_endpoint(e, v) ==
    /\ dbWrites > 0
    /\ v # retention[e]
    /\ retention' = [retention EXCEPT ![e] = v]
    /\ dbWrites' = dbWrites - 1
    /\ UNCHANGED <<poolVars, sessions, clock, ticks, clients, groups, endpoints,
                   executions, callVars, pc, loc, hist, ret>>

\* the scheduler's thread
SchedulerThread == 1

InitSchedule == InitTable(CleanupRows, 0, 0, ScheduleDbWrites)

SchedulerStep == SchedulerFires(SchedulerThread) \/ cleanup_pass(SchedulerThread)

NextSchedule ==
    \/ SchedulerStep
    \/ \E e \in Tenants, v \in RetentionValues : update_endpoint(e, v)

\* The hourly job against a healthy database: the scheduler keeps firing and
\* every pass it starts runs to its end.
SpecSchedule == InitSchedule /\ [][NextSchedule]_vars /\ WF_vars(SchedulerStep)


\* ------------------------------------------------------------------------ text
\* A Python str is a sequence of one-character strings.
UpperLetters == <<"A", "B", "C", "D", "E", "F", "G", "H", "I", "J", "K", "L", "M",
                  "N", "O", "P", "Q", "R", "S", "T", "U", "V", "W", "X", "Y", "Z">>
LowerLetters == <<"a", "b", "c", "d", "e", "f", "g", "h", "i", "j", "k", "l", "m",
                  "n", "o", "p", "q", "r", "s", "t", "u", "v", "w", "x", "y", "z">>
\* str.isupper() of one character
IsUpper(ch) == \E i \in DOMAIN UpperLetters : UpperLetters[i] = ch
\* str.lower() of one character, and of a text
LowerChar(ch) ==
    IF IsUpper(ch)
      THEN LowerLetters[CHOOSE i \in DOMAIN UpperLetters : UpperLetters[i] = ch]
      ELSE ch
Lower(text) == [i \in 1..Len(text) |-> LowerChar(text[i])]
\* `kw in text`
Contains(text, kw) ==
    \E i \in 1..(Len(text) - Len(kw) + 1) : SubSeq(text, i, i + Len(kw) - 1) = kw
\* the index of the first occurrence of kw in text at or after index i
\* (0: none)
Find(text, kw, i) ==
    LET at == {j \in i..(Len(text) - Len(kw) + 1) : SubSeq(text, j, j + Len(kw) - 1) = kw}
    IN IF at = {} THEN 0 ELSE CHOOSE j \in at : \A k \in at : j <= k
\* str.strip()
RECURSIVE LStrip(_)
LStrip(text) == IF text # <<>> /\ Head(text) = " " THEN LStrip(Tail(text)) ELSE text
RECURSIVE RStrip(_)
RStrip(text) ==
    IF text # <<>> /\ text[Len(text)] = " "
      THEN RStrip(SubSeq(text, 1, Len(text) - 1)) ELSE text
Strip(text) == RStrip(LStrip(text))
\* text.split(ch): the pieces between every occurrence of ch
RECURSIVE Split(_, _)
Split(text, ch) ==
    LET i == Find(text, <<ch>>, 1)
    IN IF i = 0 THEN <<text>>
       ELSE <<SubSeq(text, 1, i - 1)>> \o Split(SubSeq(text, i + 1, Len(text)), ch)
\* text.split(ch, 1): the pieces before and after the first occurrence of ch
SplitOnce(text, ch) ==
    LET i == Find(text, <<ch>>, 1)
    IN <<SubSeq(text, 1, i - 1), SubSeq(text, i + 1, Len(text))>>

\* A thread calls a static helper: the argument is kept in its locals, the
\* value the helper returns in ret.
PureCall(t, fn, input, output) ==
    /\ pc[t] = "idle"
    /\ calls > 0
    /\ calls' = calls - 1
    /\ op' = [op EXCEPT ![t] = fn]
    /\ loc' = [loc EXCEPT ![t] = [NoLocals EXCEPT !.param = input]]
    /\ ret' = [ret EXCEPT ![t] = Value(output)]
    /\ UNCHANGED <<poolVars, sessions, timeVars, dbVars, executions, arg, pc, hist>>

\* ------------------------------------------ EndpointExecutor._pascal_to_snake
\* lines 201-205, the loop from index i on (i counts from 1 here, from 0 in
\* the source): an upper-case character that is not the first gets '_' before
\* it; every character is appended lower-cased
RECURSIVE PascalFrom(_, _)
PascalFrom(name, i) ==
    IF i > Len(name) THEN <<>>
    ELSE (IF IsUpper(name[i]) /\ i > 1 THEN <<"_">> ELSE <<>>)
            \o <<LowerChar(name[i])>> \o PascalFrom(name, i + 1)

\* lines 190-206
pascal_to_snake(name) == PascalFrom(name, 1)

\* service names: the three of the documentation, and every name of up to
\* MaxNameLen characters over NameChars
SalesOrder == <<"S", "a", "l", "e", "s", "O", "r", "d", "e", "r">>
InventoryItem == <<"I", "n", "v", "e", "n", "t", "o", "r", "y", "I", "t", "e", "m">>
GL == <<"G", "L">>
NameChars == {"G", "L", "g", "l", "_"}
ServiceNames ==
    {SalesOrder, InventoryItem} \cup UNION {[1..n -> NameChars] : n \in 0..MaxNameLen}

CallPascalToSnake(t, name) ==
    PureCall(t, "_pascal_to_snake", name, pascal_to_snake(name))

InitNames ==
    /\ InitPool(NameCalls, 0, 0)
    /\ groups = [c \in Tenants |-> "active"]
    /\ endpoints = [c \in Tenants |-> "active"]
    /\ retention = DefaultRetention

NextNames == \E t \in Threads, name \in ServiceNames : CallPascalToSnake(t, name)

\* The name translation applied to service names by concurrent requests.
SpecNames == InitNames /\ [][NextNames]_vars


\* ------------------------------------- SchemaService._python_type_to_json_type
\* the alternatives of a union that are not None (lines 189-191)
NonNoneTypes(python_type) ==
    LET parts == Split(python_type, "|")
        types == [i \in 1..Len(parts) |-> Strip(parts[i])]
    IN SelectSeq(types, LAMBDA ty : Lower(ty) \notin {<<"n", "o", "n", "e">>, <<"n", "o", "n", "e", "t", "y", "p", "e">>})

\* the chain of substring tests of lines 202-219 on the lower-cased name
KeywordType(python_type_lower) ==
    IF Contains(python_type_lower, <<"s", "t", "r">>) \/ Contains(python_type_lower, <<"s", "t", "r", "i", "n", "g">>)
      THEN "string"
    ELSE IF Contains(python_type_lower, <<"i", "n", "t">>) \/ Contains(python_type_lower, <<"i", "n", "t", "e", "g", "e", "r">>)
      THEN "integer"
    ELSE IF \/ Contains(python_type_lower, <<"f", "l", "o", "a", "t">>)
            \/ Contains(python_type_lower, <<"n", "u", "m", "b", "e", "r">>)
            \/ Contains(python_type_lower, <<"d", "e", "c", "i", "m", "a", "l">>)
      THEN "number"
    ELSE IF Contains(python_type_lower, <<"b", "o", "o", "l">>) \/ Contains(python_type_lower, <<"b", "o", "o", "l", "e", "a", "n">>)
      THEN "boolean"
    ELSE IF Contains(python_type_lower, <<"l", "i", "s", "t">>) \/ Contains(python_type_lower, <<"a", "r", "r", "a", "y">>)
      THEN "array"
    ELSE IF Contains(python_type_lower, <<"d", "i", "c", "t">>) \/ Contains(python_type_lower, <<"o", "b", "j", "e", "c", "t">>)
      THEN "object"
    ELSE IF Contains(python_type_lower, <<"n", "o", "n", "e">>) \/ Contains(python_type_lower, <<"n", "u", "l", "l">>)
      THEN "null"
    ELSE "object"

\* lines 183-219: fold a union to its first alternative that is not None
\* ('null' when there is none), then match keywords
python_type_to_json_type(python_type) ==
    IF Contains(python_type, <<"|">>)
      THEN IF NonNoneTypes(python_type) = <<>>
             THEN "null"
             ELSE KeywordType(Lower(NonNoneTypes(python_type)[1]))
      ELSE KeywordType(Lower(python_type))

\* ------------------------------------- SchemaService._parse_signature_string
\* Python's None where a str is expected otherwise, and a str
NoneValue == [is_none |-> TRUE, text |-> <<>>]
Str(text) == [is_none |-> FALSE, text |-> text]
\* a truthy value: neither None nor ''
Truthy(v) == ~v.is_none /\ v.text # <<>>

\* line 109-111, re.search(r'\((.*?)\)'): the text between the first '(' and
\* the first ')' after it, stripped; None when there is no such pair
ParamsStr(signature_str) ==
    LET i == Find(signature_str, <<"(">>, 1)
        j == IF i = 0 THEN 0 ELSE Find(signature_str, <<")">>, i + 1)
    IN IF i = 0 \/ j = 0 THEN NoneValue
       ELSE Str(Strip(SubSeq(signature_str, i + 1, j - 1)))

\* lines 118-130: the loop over params_str from index i, splitting at the
\* commas met while bracket_depth is 0
RECURSIVE SplitParams(_, _, _, _, _)
SplitParams(params_str, i, bracket_depth, current_param, param_parts) ==
    IF i > Len(params_str)
      THEN IF current_param # <<>>
             THEN Append(param_parts, Strip(current_param)) ELSE param_parts
    ELSE LET char == params_str[i]
         IN IF char \in {"[", "{", "("}
              THEN SplitParams(params_str, i + 1, bracket_depth + 1,
                               Append(current_param, char), param_parts)
            ELSE IF char \in {"]", "}", ")"}
              THEN SplitParams(params_str, i + 1, bracket_depth - 1,
                               Append(current_param, char), param_parts)
            ELSE IF char = "," /\ bracket_depth = 0
              THEN SplitParams(params_str, i + 1, bracket_depth, <<>>,
                               Append(param_parts, Strip(current_param)))
            ELSE SplitParams(params_str, i + 1, bracket_depth,
                             Append(current_param, char), param_parts)

\* lines 138-164: one parameter: split off the default at the first '=', the
\* type at the first ':', normalise the type
ParseParam(param_str) ==
    LET has_default == Contains(param_str, <<"=">>)
        decl == IF has_default THEN Strip(SplitOnce(param_str, "=")[1]) ELSE param_str
        default_val == IF has_default THEN Str(Strip(SplitOnce(param_str, "=")[2]))
                       ELSE NoneValue
        has_type == Contains(decl, <<":">>)
        param_name == IF has_type THEN Strip(SplitOnce(decl, ":")[1]) ELSE decl
        param_type == IF has_type THEN Strip(SplitOnce(decl, ":")[2]) ELSE <<"s", "t", "r">>
    IN [name |-> param_name, required |-> ~has_default, default |-> default_val,
        type |-> [type |-> python_type_to_json_type(param_type),
                  python_type |-> param_type]]

\* lines 109-164: the parameters of the signature, in order
ParseParameters(signature_str) ==
    LET params_str == ParamsStr(signature_str)
        param_parts == IF Truthy(params_str)
                         THEN SplitParams(params_str.text, 1, 0, <<>>, <<>>) ELSE <<>>
        stripped == [i \in 1..Len(param_parts) |-> Strip(param_parts[i])]
        kept == SelectSeq(stripped, LAMBDA ps : ps # <<>>)
    IN [i \in 1..Len(kept) |-> ParseParam(kept[i])]

\* no return type
NoReturnType == [is_none |-> TRUE, type |-> "", python_type |-> <<>>]
\* lines 167-171, re.search(r'->\s*(.+?)$'): the text after the first '->',
\* stripped, when at least one character follows it
ParseReturnType(signature_str) ==
    LET k == Find(signature_str, <<"-", ">">>, 1)
        return_type_str == Strip(SubSeq(signature_str, k + 2, Len(signature_str)))
    IN IF k = 0 \/ k + 2 > Len(signature_str) THEN NoReturnType
       ELSE [is_none |-> FALSE, type |-> python_type_to_json_type(return_type_str),
             python_type |-> return_type_str]

\* what get_method_signature and _parse_signature_string return
MethodSignature(method_name, parameters, return_type, error) ==
    [method_name |-> method_name, parameters |-> parameters,
     has_return_type |-> ~return_type.is_none, return_type |-> return_type,
     error |-> error]

\* lines 89-181
parse_signature_string(method_name, signature_str) ==
    MethodSignature(method_name, ParseParameters(signature_str),
                    ParseReturnType(signature_str), NoneValue)

\* --------------------------------------- SchemaService.generate_request_schema
\* the names of the parameters, in order
ParamNames(method_signature) ==
    [i \in 1..Len(method_signature.parameters) |-> method_signature.parameters[i].name]
\* the last parameter of the given name: a later dict assignment overwrites
\* an earlier one
LastNamed(method_signature, name) ==
    LET ps == method_signature.parameters
        at == {i \in 1..Len(ps) : ps[i].name = name}
    IN ps[CHOOSE i \in at : \A j \in at : j <= i]

\* lines 311-321: the schema of one parameter
ParamSchema(param) ==
    [type |-> param.type.type,
     description |-> IF param.type.python_type # <<>>
                       THEN Str(<<"T", "y", "p", "e", ":", " ">> \o param.type.python_type) ELSE NoneValue,
     default |-> IF ~param.required /\ Truthy(param.default)
                   THEN param.default ELSE NoneValue]

\* lines 296-336: properties by parameter name, and the names of the required
\* parameters in order (an empty list stands for the absent 'required' key)
generate_request_schema(method_signature) ==
    LET names == ParamNames(method_signature)
        ps == method_signature.parameters
        req == SelectSeq(ps, LAMBDA param : param.required)
    IN [type |-> "object",
        properties |-> [n \in {names[i] : i \in 1..Len(names)} |->
                           ParamSchema(LastNamed(method_signature, n))],
        required |-> [i \in 1..Len(req) |-> req[i].name]]

\* --------------------------------------- SchemaService.generate_example_request
\* lines 462-482: the example value of one parameter
ExampleValue(param) ==
    IF ~param.required /\ Truthy(param.default) /\ param.default.text # <<"N", "o", "n", "e">>
      THEN [kind |-> "str", text |-> param.default.text]
    ELSE IF param.type.type = "string"
      THEN [kind |-> "str", text |-> <<"e", "x", "a", "m", "p", "l", "e", "_">> \o param.name]
    ELSE IF param.type.type = "integer" THEN [kind |-> "int", text |-> <<"0">>]
    ELSE IF param.type.type = "number" THEN [kind |-> "float", text |-> <<"0", ".", "0">>]
    ELSE IF param.type.type = "boolean" THEN [kind |-> "bool", text |-> <<"T", "r", "u", "e">>]
    ELSE IF param.type.type = "array" THEN [kind |-> "list", text |-> <<>>]
    ELSE IF param.type.type = "object" THEN [kind |-> "dict", text |-> <<>>]
    ELSE [kind |-> "none", text |-> <<>>]

\* generate_example_request leaving out the parameters whose type is not in
\* its table
generate_example_request_SkipsUnknown(method_signature) ==
    LET ps == SelectSeq(method_signature.parameters,
                        LAMBDA param : ExampleValue(param).kind # "none")
    IN [n \in {ps[i].name : i \in 1..Len(ps)} |->
           ExampleValue(LastNamed(method_signature, n))]

\* lines 448-484: an example value for every parameter name
generate_example_request(method_signature) ==
    LET names == ParamNames(method_signature)
    IN [n \in {names[i] : i \in 1..Len(names)} |->
           ExampleValue(LastNamed(method_signature, n))]

\* -------------------------------------- SchemaService.generate_response_schema
\* lines 363-365: python_type.split('[')[1].split(']')[0] when the type has
\* both brackets
InnerType(python_type) ==
    IF Contains(python_type, <<"[">>) /\ Contains(python_type, <<"]">>)
      THEN Split(Split(python_type, "[")[2], "]")[1]
      ELSE python_type

AnyKeyword(text, keywords) == \E kw \in keywords : Contains(text, kw)

\* lines 349-422: the schema of the 'data' property (shape: which of the
\* branches built it; of: the type text its description quotes)
DataSchema(method_signature) ==
    LET method_name == Lower(method_signature.method_name)
        python_type == method_signature.return_type.python_type
        json_type == method_signature.return_type.type
    IN IF method_signature.has_return_type
         THEN IF Contains(Lower(python_type), <<"l", "i", "s", "t">>) \/ json_type = "array"
                THEN [type |-> "array", shape |-> "array", of |-> InnerType(python_type)]
              ELSE IF json_type = "boolean"
                THEN [type |-> "object", shape |-> "status", of |-> python_type]
              ELSE IF json_type = "string"
                THEN [type |-> "string", shape |-> "typed", of |-> python_type]
              ELSE IF json_type \in {"integer", "number"}
                THEN [type |-> json_type, shape |-> "typed", of |-> python_type]
              ELSE IF Contains(Lower(python_type), <<"d", "i", "c", "t">>) \/ json_type = "object"
                THEN [type |-> "object", shape |-> "single", of |-> python_type]
              ELSE [type |-> json_type, shape |-> "typed", of |-> python_type]
         ELSE IF AnyKeyword(method_name, {<<"l", "i", "s", "t">>, <<"q", "u", "e", "r", "y">>, <<"s", "e", "a", "r", "c", "h">>, <<"g", "e", "t", "_", "a", "l", "l">>})
                THEN [type |-> "array", shape |-> "array", of |-> <<>>]
              ELSE IF AnyKeyword(method_name,
                                 {<<"d", "e", "l", "e", "t", "e">>, <<"r", "e", "m", "o", "v", "e">>, <<"u", "p", "d", "a", "t", "e">>, <<"p", "u", "t">>})
                THEN [type |-> "object", shape |-> "status", of |-> <<>>]
              ELSE [type |-> "object", shape |-> "plain", of |-> <<>>]

\* lines 338-446: the standard wrapper around the data schema
generate_response_schema(method_signature) ==
    [type |-> "object", data |-> DataSchema(method_signature),
     required |-> <<<<"s", "u", "c", "c", "e", "s", "s">>, <<"d", "a", "t", "a">>>>]

\* ------------------------------------------- SchemaService._extract_type_info
\* An annotation as inspect reports it: none, a string, a class, Optional[C],
\* another Union, or another generic alias (List[...], Dict[...]).
Annotations ==
    {[kind |-> "empty", name |-> <<>>]}
    \cup {[kind |-> k, name |-> n] :
            k \in {"string", "class", "optional"}, n \in {<<"i", "n", "t">>, <<"Q", "u", "e", "r", "y", "O", "p", "t", "i", "o", "n", "s">>}}
    \cup {[kind |-> "union", name |-> <<"U", "n", "i", "o", "n">>], [kind |-> "generic", name |-> <<"L", "i", "s", "t">>]}

\* lines 276-289: type_mapping.get(type_name, 'object')
TypeMapping(type_name) ==
    IF type_name = <<"s", "t", "r">> THEN "string"
    ELSE IF type_name = <<"i", "n", "t">> THEN "integer"
    ELSE IF type_name = <<"f", "l", "o", "a", "t">> THEN "number"
    ELSE IF type_name = <<"b", "o", "o", "l">> THEN "boolean"
    ELSE IF type_name \in {<<"d", "i", "c", "t">>, <<"D", "i", "c", "t">>} THEN "object"
    ELSE IF type_name \in {<<"l", "i", "s", "t">>, <<"L", "i", "s", "t">>} THEN "array"
    ELSE IF type_name \in {<<"N", "o", "n", "e">>, <<"N", "o", "n", "e", "T", "y", "p", "e">>} THEN "null"
    ELSE "object"

\* lines 221-294
extract_type_info(annotation) ==
    IF annotation.kind = "empty"
      THEN [type |-> "any", python_type |-> <<"A", "n", "y">>]
    ELSE IF annotation.kind = "string"
      THEN [type |-> "string", python_type |-> annotation.name]
    ELSE IF annotation.kind = "optional"
      THEN [type |-> TypeMapping(annotation.name), python_type |-> annotation.name,
            optional |-> TRUE]
    ELSE IF annotation.kind = "union"
      THEN [type |-> "union", python_type |-> annotation.name]
    ELSE IF annotation.kind = "generic"
      THEN [type |-> "list", python_type |-> annotation.name]
    ELSE [type |-> TypeMapping(annotation.name), python_type |-> annotation.name]

\* ------------------------------------------ SchemaService.get_method_signature
\* lines 79-87: the signature returned when anything raised
ErrorSignature(method_name, msg) ==
    MethodSignature(method_name, <<>>, NoReturnType, Str(msg))

\* lines 51-64: the parameters inspect.signature reports, 'self' skipped
InspectedParameters(params) ==
    LET kept == SelectSeq(params, LAMBDA param : param.name # <<"s", "e", "l", "f">>)
    IN [i \in 1..Len(kept) |->
          [name |-> kept[i].name,
           required |-> kept[i].default.is_none,
           default |-> kept[i].default,
           type |-> extract_type_info(kept[i].annotation)]]

\* A service object, by what the lines 36-49 can observe of it:
\*   registry: get_signature is absent, returns a str (text), returns a
\*             truthy value that is no str, raises ValueError or
\*             AttributeError ("lookup"), or raises anything else ("other")
\*   method:   getattr(service_obj, method_name) raises AttributeError
\*             ("missing"), inspect.signature raises ("opaque"), or it
\*             reports params
ServiceObject(registry, text, method, params) ==
    [registry |-> registry, text |-> text, method |-> method, params |-> params]

\* str(e) of the exceptions the service object can raise
RegistryDown == "registry unavailable"
NoSuchMethod == "object has no attribute"
NoSignature == "no signature found"

\* lines 33-87
get_method_signature(service_obj, method_name) ==
    IF service_obj.registry = "other"
      THEN ErrorSignature(method_name, RegistryDown)
    ELSE IF service_obj.registry = "str" /\ service_obj.text # <<>>
      THEN parse_signature_string(method_name, service_obj.text)
    ELSE IF service_obj.registry = "not_str"
      THEN MethodSignature(method_name, <<>>, NoReturnType, NoneValue)
    ELSE IF service_obj.method = "missing"
      THEN ErrorSignature(method_name, NoSuchMethod)
    ELSE IF service_obj.method = "opaque"
      THEN ErrorSignature(method_name, NoSignature)
    ELSE MethodSignature(method_name, InspectedParameters(service_obj.params),
                         NoReturnType, NoneValue)

\* ------------------------------------------- SchemaService.get_complete_schema
\* lines 486-506
get_complete_schema(service_obj, method_name) ==
    LET signature == get_method_signature(service_obj, method_name)
    IN [method_name |-> method_name,
        signature |-> signature,
        request_schema |-> generate_request_schema(signature),
        response_schema |-> generate_response_schema(signature),
        example_request |-> generate_example_request(signature)]

\* --------------------------------------------------------- schema inputs
\* type names
TypeNames ==
    {<<"s", "t", "r">>,
     <<"s", "t", "r", "i", "n", "g">>,
     <<"i", "n", "t">>,
     <<"f", "l", "o", "a", "t">>,
     <<"D", "e", "c", "i", "m", "a", "l">>,
     <<"b", "o", "o", "l">>,
     <<"l", "i", "s", "t">>,
     <<"d", "i", "c", "t">>,
     <<"N", "o", "n", "e">>,
     <<"A", "n", "y">>,
     <<"Q", "u", "e", "r", "y", "O", "p", "t", "i", "o", "n", "s">>,
     <<"P", "o", "i", "n", "t">>,
     <<"a", "r", "r", "a", "y">>,
     <<"L", "i", "s", "t">>,
     <<"l", "i", "s", "t", "[", "s", "t", "r", "]">>,
     <<"l", "i", "s", "t", "[", "i", "n", "t", "]">>,
     <<"L", "i", "s", "t", "[", "D", "i", "c", "t", "]">>,
     <<"O", "p", "t", "i", "o", "n", "a", "l", "[", "b", "o", "o", "l", "]">>,
     <<"s", "t", "r", " ", "|", " ", "N", "o", "n", "e">>,
     <<"Q", "u", "e", "r", "y", "O", "p", "t", "i", "o", "n", "s", " ", "|", " ", "N", "o", "n", "e">>,
     <<"i", "n", "t", " ", "|", " ", "s", "t", "r", " ", "|", " ", "N", "o", "n", "e">>,
     <<"N", "o", "n", "e", " ", "|", " ", "N", "o", "n", "e">>,
     <<"l", "i", "s", "t", "[", "s", "t", "r", "]", " ", "|", " ", "N", "o", "n", "e">>,
     <<>>}

\* signature strings: get_list(<up to MaxParams parameters>)[ -> bool], each
\* parameter a name with or without a type and with or without a default; and
\* three strings of other shapes
SigTypes == {<<"Q", "u", "e", "r", "y", "O", "p", "t", "i", "o", "n", "s", " ", "|", " ", "N", "o", "n", "e">>, <<"s", "t", "r">>, <<"i", "n", "t", " ", "|", " ", "s", "t", "r", " ", "|", " ", "N", "o", "n", "e">>, <<"l", "i", "s", "t", "[", "Q", "u", "e", "r", "y", "O", "p", "t", "i", "o", "n", "s", "]">>}
ParamTexts ==
    {n \o a \o d :
        n \in {<<"o", "p", "t", "s">>, <<"i", "d">>},
        a \in {<<>>} \cup {<<":", " ">> \o ty : ty \in SigTypes},
        d \in {<<>>} \cup {<<" ", "=", " ">> \o dv : dv \in {<<"N", "o", "n", "e">>, <<"5">>}}}
RECURSIVE JoinParams(_)
JoinParams(ps) ==
    IF ps = <<>> THEN <<>>
    ELSE IF Len(ps) = 1 THEN ps[1]
    ELSE ps[1] \o <<",", " ">> \o JoinParams(Tail(ps))
MethodName == <<"g", "e", "t", "_", "l", "i", "s", "t">>
Signatures ==
    {MethodName \o <<"(">> \o JoinParams(ps) \o <<")">> \o r :
        ps \in UNION {[1..n -> ParamTexts] : n \in 0..MaxParams},
        r \in {<<>>, <<" ", "-", ">", " ", "b", "o", "o", "l">>}}
    \cup {<<"b", "r", "o", "k", "e", "n">>, <<"g", "e", "t", "_", "l", "i", "s", "t", "(", "a", ":", " ", "D", "i", "c", "t", "[", "s", "t", "r", ",", " ", "i", "n", "t", "]", ",", " ", "b", ")">>, <<"g", "e", "t", "_", "l", "i", "s", "t", "(", "x", " ", "=", " ", "a", "=", "b", ",", " ", ",", " ", "y", ":", ")", "-", ">">>}

\* the methods inspect.signature can report on: self and up to one parameter
InspectedMethods ==
    {<<[name |-> <<"s", "e", "l", "f">>, default |-> NoneValue,
        annotation |-> [kind |-> "empty", name |-> <<>>]]>>}
    \cup {<<[name |-> <<"o", "p", "t", "s">>, default |-> d, annotation |-> a]>> :
            d \in {NoneValue, Str(<<"5">>)}, a \in Annotations}

ServiceObjects ==
    {ServiceObject("str", sig, "missing", <<>>) : sig \in Signatures \cup {<<>>}}
    \cup {ServiceObject(r, <<>>, m, <<>>) :
            r \in {"absent", "not_str", "lookup", "other"}, m \in {"missing", "opaque"}}
    \cup {ServiceObject(r, <<>>, "inspected", ps) :
            r \in {"absent", "lookup"}, ps \in InspectedMethods}

CallTypeToJson(t, python_type) ==
    PureCall(t, "_python_type_to_json_type", python_type,
             python_type_to_json_type(python_type))

CallParseSignature(t, signature_str) ==
    PureCall(t, "_parse_signature_string", signature_str,
             parse_signature_string(MethodName, signature_str))

CallGetCompleteSchema(t, service_obj) ==
    PureCall(t, "get_complete_schema", service_obj,
             get_complete_schema(service_obj, MethodName))

InitSchema ==
    /\ InitPool(SchemaCalls, 0, 0)
    /\ groups = [c \in Tenants |-> "active"]
    /\ endpoints = [c \in Tenants |-> "active"]
    /\ retention = DefaultRetention

NextSchema ==
    \E t \in Threads :
        \/ \E python_type \in TypeNames : CallTypeToJson(t, python_type)
        \/ \E signature_str \in Signatures : CallParseSignature(t, signature_str)
        \/ \E service_obj \in ServiceObjects : CallGetCompleteSchema(t, service_obj)

\* The schema service's static methods applied to type names, signature
\* strings and service objects.
SpecSchema == InitSchema /\ [][NextSchema]_vars

\* ------------------------------------------------ api/endpoints.py create_endpoint
\* The schemas create_endpoint starts from (lines 110-111), and what its
\* introspection found: outcome is "not_connected" (get_client_from_session
\* returned None), "no_service" (the client has no such attribute), "raised"
\* (an exception inside the try of line 113) or "introspected".
NoSchemas(outcome) ==
    [outcome |-> outcome, service_obj |-> <<>>, request_schema |-> <<>>,
     response_schema |-> <<>>, signature |-> <<>>]
Introspected(service_obj) ==
    LET complete_schema == get_complete_schema(service_obj, MethodName)
    IN [outcome |-> "introspected", service_obj |-> service_obj,
        request_schema |-> complete_schema.request_schema,
        response_schema |-> complete_schema.response_schema,
        signature |-> complete_schema.signature]

\* the service objects create_endpoint meets
CreateServiceObjects ==
    {o \in ServiceObjects :
        \/ o.registry # "str"
        \/ o.text \in {<<>>, <<"b", "r", "o", "k", "e", "n">>, <<"g", "e", "t", "_", "l", "i", "s", "t", "(", "a", ":", " ", "D", "i", "c", "t", "[", "s", "t", "r", ",", " ", "i", "n", "t", "]", ",", " ", "b", ")">>, <<"g", "e", "t", "_", "l", "i", "s", "t", "(", "o", "p", "t", "s", ":", " ", "Q", "u", "e", "r", "y", "O", "p", "t", "i", "o", "n", "s", " ", "|", " ", "N", "o", "n", "e", ",", " ", "i", "d", ":", " ", "s", "t", "r", " ", "=", " ", "5", ")">>}}

\* lines 82-95: service_name and method_name must be given (400); the service
\* group must exist (404)
CeValidate(t) ==
    /\ pc[t] = "ce_validate"
    /\ \/ /\ ret' = [ret EXCEPT ![t] = Response(400, "service_name and method_name are required")]
          /\ Goto(t, "idle")
       \/ IF groups[arg[t]] = "missing"
            THEN /\ ret' = [ret EXCEPT ![t] = Response(404, "Service group not found")]
                 /\ Goto(t, "idle")
            ELSE Goto(t, "ce_existing") /\ UNCHANGED ret
    /\ UNCHANGED <<poolVars, sessions, timeVars, dbVars, executions, callVars, loc, hist>>

\* lines 97-107: an endpoint for the same service method exists already (409)
CeExisting(t) ==
    /\ pc[t] = "ce_existing"
    /\ IF endpoints[arg[t]] # "missing"
         THEN /\ ret' = [ret EXCEPT ![t] = Response(409, "Endpoint already exists")]
              /\ Goto(t, "idle")
         ELSE Goto(t, "ce_introspect") /\ UNCHANGED ret
    /\ UNCHANGED <<poolVars, sessions, timeVars, dbVars, executions, callVars, loc, hist>>

\* CeIntrospect answering 500 when no schema could be generated
CeIntrospect_Aborts(t) ==
    /\ pc[t] = "ce_introspect"
    /\ \/ /\ \E outcome \in {"not_connected", "no_service", "raised"} :
                SetLoc(t, "param", NoSchemas(outcome))
          /\ ret' = [ret EXCEPT ![t] = Response(500, "Failed to generate schema")]
          /\ Goto(t, "idle")
       \/ /\ \E service_obj \in CreateServiceObjects :
                SetLoc(t, "param", Introspected(service_obj))
          /\ Goto(t, "ce_persist")
          /\ UNCHANGED ret
    /\ UNCHANGED <<poolVars, sessions, timeVars, dbVars, executions, callVars, hist>>

\* lines 109-129: the schemas stay {} when the client is not connected, the
\* service is missing or anything raises; else they come from
\* get_complete_schema
CeIntrospect(t) ==
    /\ pc[t] = "ce_introspect"
    /\ \/ \E outcome \in {"not_connected", "no_service", "raised"} :
             SetLoc(t, "param", NoSchemas(outcome))
       \/ \E service_obj \in CreateServiceObjects :
             SetLoc(t, "param", Introspected(service_obj))
    /\ Goto(t, "ce_persist")
    /\ UNCHANGED <<poolVars, sessions, timeVars, dbVars, executions, callVars, hist, ret>>

\* lines 131-157: construct the Endpoint (is_active and log_retention_hours
\* from the body, defaults True and 24), add and commit it, answer 201; when
\* the commit raises, roll back and answer 500
CePersist(t) ==
    /\ pc[t] = "ce_persist"
    /\ \/ /\ \E is_active \in BOOLEAN :
                endpoints' = [endpoints EXCEPT
                                ![arg[t]] = IF is_active THEN "active" ELSE "inactive"]
          /\ retention' = [retention EXCEPT ![arg[t]] = Hours(DefaultRetentionHours)]
          /\ ret' = [ret EXCEPT ![t] = Response(201, "")]
       \/ /\ ret' = [ret EXCEPT ![t] = Response(500, CommitFailed)]
          /\ UNCHANGED <<endpoints, retention>>
    /\ Goto(t, "idle")
    /\ UNCHANGED <<poolVars, sessions, timeVars, clients, groups, executions, callVars,
                   loc, hist>>

create_endpoint(t) == CeValidate(t) \/ CeExisting(t) \/ CeIntrospect(t) \/ CePersist(t)

\* create_endpoint requests for the first CreateTenants tenants, whose
\* service group exists or not and who have no endpoint yet.
InitCreate ==
    /\ InitPool(CreateCalls, 0, 0)
    /\ groups \in [Tenants -> {"active", "inactive", "missing"}]
    /\ \A c \in Tenants \ (1..CreateTenants) : groups[c] = "active"
    /\ endpoints = [c \in Tenants |-> "missing"]
    /\ retention = DefaultRetention

NextCreate ==
    \E t \in Threads :
        \/ \E c \in 1..CreateTenants : Begin(t, "create_endpoint", c, "ce_validate")
        \/ create_endpoint(t)

SpecCreate == InitCreate /\ [][NextCreate]_vars

\* ------------------------------------------------------------------ positions
\* inside get_connection's per-tenant section (lines 53-79)
InGetSection(t) ==
    pc[t] \in {"gc_check", "gc_read", "gc_valid", "gc_touch", "gc_logout",
               "cc_lookup", "cc_login", "gc_store"}
\* inside disconnect's section (lines 149-164)
InDisconnectSection(t) == pc[t] \in {"dc_check", "dc_logout"}
\* a remote login() or logout() is in progress
InRemoteCall(t) == pc[t] \in {"cc_login", "gc_logout", "dc_logout"}
\* sessions of tenant c that completed login() and had no logout() invoked
LiveSessions(c) ==
    {s \in Handles : sessions[s].tenant = c /\ sessions[s].loggedIn
                                            /\ sessions[s].logouts = 0}

\* ---------------------------------------------------------------------- C1
\* C1: under any interleaving of get_connection, disconnect and
\* refresh_connection, every tenant has at most one session that completed
\* login() and has not had logout() invoked on it.
C1_AtMostOneLiveSession == \A c \in Tenants : Cardinality(LiveSessions(c)) <= 1

\* ---------------------------------------------------------------------- C7
\* C7: for one tenant, no thread is inside disconnect's read/logout/remove
\* section while another thread is inside get_connection's check/reuse/create
\* section.
C7_TenantSectionsExclusive ==
    \A a, b \in Threads :
        (a # b /\ arg[a] = arg[b]) => ~(InDisconnectSection(a) /\ InGetSection(b))

\* ---------------------------------------------------------------------- C8
\* C8: in every pool operation the pool-wide lock is never held while a
\* remote login() or logout() is in progress.
C8_NoRemoteCallUnderGlobalLock ==
    \A t \in Threads : InRemoteCall(t) => globalLock # t

\* ---------------------------------------------------------------------- C9
\* C9: while a get_connection(A) call is in remote login() or in the logout()
\* of A's expired session, it holds no lock but A's own: not the pool-wide
\* lock and no other tenant's lock, so a get_connection(B) call waiting for a
\* lock is never waiting for that call.
C9_LoginBlocksNoOtherTenant ==
    \A a \in Threads :
        pc[a] \in {"cc_login", "gc_logout"} =>
            /\ globalLock # a
            /\ \A c \in DOMAIN locks : locks[c] = a => c = arg[a]
            /\ \A b \in Threads \ {a} :
                  (arg[b] # arg[a] /\ pc[b] \in {"gc_lock_global", "gc_acquire"}) =>
                     /\ globalLock # a
                     /\ arg[b] \in DOMAIN locks => locks[arg[b]] # a

\* Thread a is still in login() for one tenant; thread b constructed, logged in,
\* stored and returned a session of another tenant after a's login() began.
C9_Witness ==
    \E a, b \in Threads :
        /\ pc[a] = "cc_login"
        /\ pc[b] = "idle" /\ op[b] = "get_connection" /\ arg[b] # arg[a]
        /\ ret[b].kind = "handle"
        /\ ret[b].val > loc[a].acumatica_client
        /\ hist[b].created = ret[b].val

\* ---------------------------------------------------------------------- C2
\* a and b are get_connection calls for one tenant, running at the same time,
\* both begun while the pool held no entry for the tenant
ConcurrentGets(a, b) ==
    /\ a # b /\ a \in hist[b].with
    /\ op[a] = "get_connection" /\ op[b] = "get_connection" /\ arg[a] = arg[b]
    /\ ~hist[a].cachedAtBegin /\ ~hist[b].cachedAtBegin

\* C2 as stated: concurrent get_connection calls for a tenant with no cached
\* session make at most one login() call in total, and all of them receive the
\* same session handle.
C2_OneLoginInTotal ==
    \A a, b \in Threads :
        ConcurrentGets(a, b) =>
            /\ hist[a].logins + hist[b].logins <= 1
            /\ (pc[a] = "idle" /\ pc[b] = "idle") =>
                   (ret[a].kind = "handle" /\ ret[a] = ret[b])

\* C2 amended: as long as no session of the tenant has idle-expired (none has
\* had logout() invoked), at most one login() for the tenant has succeeded and
\* all callers that received a handle received the same one (a login() that
\* raises is repeated by the next caller).
C2_OneSuccessfulLogin ==
    \A c \in Tenants :
        (\A s \in Handles : sessions[s].tenant = c => sessions[s].logouts = 0) =>
            /\ Cardinality({s \in Handles : sessions[s].tenant = c
                                            /\ sessions[s].loggedIn}) <= 1
            /\ \A a, b \in Threads :
                  (/\ op[a] = "get_connection" /\ arg[a] = c /\ ret[a].kind = "handle"
                   /\ op[b] = "get_connection" /\ arg[b] = c /\ ret[b].kind = "handle")
                  => ret[a].val = ret[b].val

\* Two overlapping calls on an empty pool both returned the one session that
\* one of them logged in.
C2_Witness ==
    \E a, b \in Threads :
        /\ ConcurrentGets(a, b)
        /\ pc[a] = "idle" /\ pc[b] = "idle"
        /\ ret[a].kind = "handle" /\ ret[a] = ret[b]
        /\ hist[a].logins + hist[b].logins = 1
        /\ hist[a].logouts = 0 /\ hist[b].logouts = 0

\* ---------------------------------------------------------------------- C3
\* a finished execute_endpoint call
ExecDone(t) == pc[t] = "idle" /\ op[t] = "execute" /\ ret[t].kind = "response"
\* the call committed exactly one row, for its endpoint, with this status
WroteOneRow(t, status) ==
    /\ Len(hist[t].written) = 1
    /\ hist[t].written[1].endpoint_id = arg[t]
    /\ hist[t].written[1].status_code = status
    /\ \E i \in 1..Len(executions) : executions[i] = hist[t].written[1]

\* C3: when the remote method of an active endpoint raises (other than a
\* parameter mismatch), execute returns 500 with a non-empty error and has
\* persisted exactly one row for the endpoint with status 500 and a duration
\* that is not negative.
C3_RemoteErrorIsLogged ==
    \A t \in Threads :
        (ExecDone(t) /\ hist[t].failedAt = "remote") =>
            /\ ret[t].val = 500 /\ ret[t].error # ""
            /\ WroteOneRow(t, 500)
            /\ hist[t].written[1].duration_ms >= 0

\* ---------------------------------------------------------------------- C4
\* C4: every execute call that fails after an active endpoint was identified
\* (connection failure, remote service or method not found, invalid
\* parameters) persists exactly one row for the endpoint, with the status code
\* returned to the caller and its error message set.
C4_LateFailureIsLogged ==
    \A t \in Threads :
        (ExecDone(t) /\ hist[t].failedAt \in {"connection", "service", "method", "params"}) =>
            /\ WroteOneRow(t, ret[t].val)
            /\ hist[t].written[1].has_error_message

\* ---------------------------------------------------------------------- C5
\* C5: execute returns 404 when the service group is not found, 403 when it is
\* inactive, 404 when the endpoint is not found and 403 when it is inactive,
\* checked in that order, and writes no row on any of these outcomes.
C5_ResolutionFailures ==
    /\ \A t \in Threads :
          ExecDone(t) =>
             LET g == groups[arg[t]]
                 e == endpoints[arg[t]]
             IN /\ g = "missing" => ret[t] = Response(404, "Service group not found")
                /\ g = "inactive" => ret[t] = Response(403, "Service group is inactive")
                /\ (g = "active" /\ e = "missing") =>
                      ret[t] = Response(404, "Endpoint not found")
                /\ (g = "active" /\ e = "inactive") =>
                      ret[t] = Response(403, "Endpoint is inactive")
                /\ (g # "active" \/ e # "active") => hist[t].written = <<>>
    /\ \A i \in 1..Len(executions) :
          /\ groups[executions[i].endpoint_id] = "active"
          /\ endpoints[executions[i].endpoint_id] = "active"

\* A call against an inactive endpoint of an active group returned 403 and the
\* table is still empty.
C5_Witness ==
    \E t \in Threads :
        /\ ExecDone(t)
        /\ groups[arg[t]] = "active" /\ endpoints[arg[t]] = "inactive"
        /\ ret[t].val = 403
        /\ hist[t].written = <<>> /\ executions = <<>>

\* ---------------------------------------------------------------------- C6
\* C6: whenever get_connection(T) fails, the pool holds no cached entry for T
\* as the error reaches the caller.
C6_FailureLeavesNoEntry ==
    [][\A t \in Threads :
          (/\ op[t] = "get_connection" /\ pc[t] # "idle"
           /\ pc'[t] = "idle" /\ ret'[t].kind = "error")
          => arg[t] \notin DOMAIN connections']_vars

\* --------------------------------------------------------------------- C10
\* a finished get_connection call that found a cached entry at line 56
GetDoneOnCached(t) ==
    pc[t] = "idle" /\ op[t] = "get_connection" /\ hist[t].seen # NoEntry
\* the entry the call read was younger than the 30-minute window at its check
ReadWithinWindow(t) == hist[t].checkedAt - hist[t].seen.last < 30
\* same handle returned, timestamp set to the time of the store, no remote call
Reused(t) ==
    /\ ret[t] = Handle(hist[t].seen.sess)
    /\ hist[t].logins = 0 /\ hist[t].logouts = 0
    /\ hist[t].stored = [sess |-> hist[t].seen.sess, last |-> hist[t].leftAt]
\* logout() invoked once, on the old session
OldLoggedOutOnce(t) ==
    hist[t].logouts = 1 /\ sessions[hist[t].seen.sess].logouts >= 1
\* exactly one new session logged in, cached and returned
Replaced(t) ==
    /\ OldLoggedOutOnce(t)
    /\ hist[t].logins = 1
    /\ ret[t] = Handle(hist[t].created)
    /\ hist[t].created # hist[t].seen.sess
    /\ sessions[hist[t].created].loggedIn
    /\ hist[t].stored = [sess |-> hist[t].created, last |-> hist[t].leftAt]

\* C10 as stated: the cached handle is reused exactly when now - lastUsedAt is
\* below the 30-minute window; otherwise logout() is invoked once on the old
\* session and exactly one newly logged-in session replaces it in the cache.
C10_ReuseOrReplace ==
    \A t \in Threads :
        GetDoneOnCached(t) => IF ReadWithinWindow(t) THEN Reused(t) ELSE Replaced(t)

\* C10 amended: ... otherwise logout() is invoked once on the old session and,
\* unless the client lookup, the decryption or login() fails, exactly one newly
\* logged-in session replaces it in the cache; when one of them fails the call
\* raises, having logged in and cached no new session.
C10_ReuseOrReplaceUnlessLoginFails ==
    \A t \in Threads :
        GetDoneOnCached(t) =>
            IF ReadWithinWindow(t) THEN Reused(t)
            ELSE IF ret[t].kind = "handle" THEN Replaced(t)
            ELSE /\ ret[t].kind = "error"
                 /\ OldLoggedOutOnce(t)
                 /\ hist[t].logins <= 1
                 /\ hist[t].created # NoSession => ~sessions[hist[t].created].loggedIn
                 /\ hist[t].stored = NoEntry

\* A call that read an entry exactly 30 minutes old replaced it.
C10_Witness ==
    \E t \in Threads :
        /\ GetDoneOnCached(t)
        /\ hist[t].checkedAt - hist[t].seen.last = 30
        /\ Replaced(t)

\* --------------------------------------------------------------------- C11
\* a disconnect call returns b in this step
DisconnectReturns(t, b) ==
    /\ op[t] = "disconnect" /\ pc[t] # "idle"
    /\ pc'[t] = "idle" /\ ret'[t] = Bool(b)

\* C11: disconnect(T) that finds no cached session for T returns false having
\* invoked no logout(); one that finds a cached session invokes logout() on
\* that session exactly once, removes T's cache entry and returns true, also
\* when logout() raises.
C11_DisconnectResult ==
    [][\A t \in Threads :
          /\ (op[t] = "disconnect" /\ pc[t] # "idle" /\ pc'[t] = "idle") =>
                 ret'[t] = Bool(hist'[t].seen # NoEntry)
          /\ DisconnectReturns(t, FALSE) =>
                 /\ hist'[t].logouts = 0
                 /\ arg[t] \notin DOMAIN connections
                 /\ sessions' = sessions
          /\ DisconnectReturns(t, TRUE) =>
                 /\ hist'[t].logouts = 1
                 /\ sessions[hist'[t].seen.sess].logouts >= 1
                 /\ arg[t] \notin DOMAIN connections']_vars

\* A disconnect whose logout() raised returned true with the entry removed.
C11_Witness ==
    \E t \in Threads :
        /\ pc[t] = "idle" /\ op[t] = "disconnect" /\ ret[t] = Bool(TRUE)
        /\ hist[t].logoutRaised /\ hist[t].logouts = 1
        /\ sessions[hist[t].seen.sess].logouts = 1
        /\ arg[t] \notin DOMAIN connections

\* --------------------------------------------------------------------- C12
\* C12: a successful refresh_connection(T) never returns the session that was
\* cached for T when the call began.
C12_RefreshReturnsNewSession ==
    \A t \in Threads :
        (/\ pc[t] = "idle" /\ op[t] = "refresh" /\ ret[t].kind = "handle"
         /\ hist[t].old # NoSession)
        => ret[t].val # hist[t].old

\* --------------------------------------------------------------------- C13
\* an execute_endpoint call that has ended, by returning or by raising
ExecEnded(t) == pc[t] = "idle" /\ op[t] = "execute" /\ ret[t] # NoRet

C15_AlwaysAnEnvelope ==
    \A t \in Threads :
        ExecEnded(t) =>
            /\ ret[t].kind = "response"
            /\ ret[t].val \in {200, 400, 403, 404, 500}
            /\ (ret[t].val = 200) <=> (ret[t].error = "")

\* --------------------------------------------------------------------- C16
\* C16: no execute_endpoint call for a tenant whose Client row was inactive
\* when the call began obtains a pooled session or invokes a remote method.
C16_InactiveTenantGetsNoSession ==
    \A t \in Threads :
        (op[t] = "execute" /\ hist[t].clientAtBegin = "inactive") =>
            /\ pc[t] \notin {"ex_service", "ex_method", "ex_invoke", "ex_log"}
            /\ hist[t].remote = "none"

\* --------------------------------------------------------------------- C17
\* thread t is the one taking this step
Acts(t) == pc'[t] # pc[t]
\* a cleanup_old_logs pass returns its totals in this step
PassSucceeds(t) ==
    op[t] = "cleanup" /\ pc[t] = "cl_commit" /\ pc'[t] = "idle" /\ ret'[t].kind = "cleanup"

\* C17: when a cleanup_old_logs pass succeeds, every endpoint E was judged by
\* a cutoff of (a time within the pass) - E's own retention; no row of E older
\* than that cutoff is left in the table, and every row of E at or after the
\* cutoff that was in the table is still there.
C17_PassRemovesExactlyExpired ==
    [][\A t \in Threads :
          PassSucceeds(t) =>
             \A e \in Tenants :
                /\ e \in DOMAIN hist[t].cutoffs
                /\ hist[t].cutoffs[e] + MinutesPerHour * retention[e].hours
                      \in loc[t].start_time..clock
                /\ \A i \in 1..Len(executions') :
                      executions'[i].endpoint_id = e =>
                          executions'[i].executed_at >= hist[t].cutoffs[e]
                /\ \A i \in 1..Len(executions) :
                      (/\ executions[i].endpoint_id = e
                       /\ executions[i].executed_at >= hist[t].cutoffs[e])
                      => \E j \in 1..Len(executions') : executions'[j] = executions[i]]_vars

\* A pass succeeded, removed a row, and left a row executed exactly at its
\* endpoint's cutoff.
C17_Witness ==
    \E t \in Threads :
        /\ pc[t] = "idle" /\ op[t] = "cleanup" /\ ret[t].kind = "cleanup"
        /\ hist[t].removed # {}
        /\ \E i \in 1..Len(executions) :
              executions[i].executed_at = hist[t].cutoffs[executions[i].endpoint_id]

\* --------------------------------------------------------------------- C18
\* the row with key i is stored and older than its endpoint's retention
RowExpiredNow(i) ==
    \E j \in 1..Len(executions) :
        /\ executions[j].id = i
        /\ retention[executions[j].endpoint_id].usable
        /\ Expired(executions[j],
                   clock - MinutesPerHour * retention[executions[j].endpoint_id].hours)

\* C18: under the periodic scheduler every row whose executed_at + retention
\* lies in the past is eventually deleted, whatever the state of the other
\* endpoints.
C18_ExpiredEventuallyDeleted ==
    \A i \in 1..CleanupRows : RowExpiredNow(i) ~> ~RowExpiredNow(i)

\* --------------------------------------------------------------------- C19
\* C19: a cleanup_old_logs call always returns a result, never raises; no
\* step of a pass other than its successful commit changes the table, and a
\* pass that returns a failure leaves none of its deletions behind, pending or
\* committed.
C19_FailedPassChangesNothing ==
    [][\A t \in Threads :
          (op[t] = "cleanup" /\ Acts(t) /\ pc[t] # "idle") =>
             /\ pc'[t] = "idle" => ret'[t].kind \in {"cleanup", "failure"}
             /\ ~PassSucceeds(t) => executions' = executions
             /\ (pc'[t] = "idle" /\ ret'[t].kind = "failure") =>
                    /\ loc'[t].deleted = {}
                    /\ hist'[t].removed = {}]_vars

\* A pass deleted rows of one endpoint, failed at a later one, returned a
\* failure, and the table still holds every row.
C19_Witness ==
    \E t \in Threads :
        /\ pc[t] = "idle" /\ op[t] = "cleanup" /\ ret[t].kind = "failure"
        /\ ret[t].error = BadHours
        /\ loc[t].total_deleted > 0 /\ loc[t].deleted = {}
        /\ Len(executions) = CleanupRows

\* --------------------------------------------------------------------- C20
\* C20: the total_deleted a cleanup_old_logs pass returns is the number of
\* rows the pass removed, and endpoints_processed is the number of endpoints
\* it removed at least one row from.
C20_TotalsMatchRemovals ==
    \A t \in Threads :
        (pc[t] = "idle" /\ op[t] = "cleanup" /\ ret[t].kind = "cleanup") =>
            /\ ret[t].val = Cardinality(hist[t].removed)
            /\ loc[t].endpoints_processed =
                  Cardinality({r.endpoint_id : r \in hist[t].removed})

\* --------------------------------------------------------------------- C21
\* every stored row is still stored, unaltered, after the step
RowsKept == \A i \in 1..Len(executions) :
               \E j \in 1..Len(executions') : executions'[j] = executions[i]
\* the step is the commit of a cleanup_old_logs pass or of a
\* cleanup_logs_for_endpoint call
CleanupCommits ==
    \E t \in Threads :
        /\ op[t] \in {"cleanup", "cleanup_one"}
        /\ pc[t] \in {"cl_commit", "co_commit"}
        /\ pc'[t] = "idle"

\* C21: under any interleaving of execute_endpoint, cleanup_old_logs and
\* cleanup_logs_for_endpoint, a step of execute_endpoint leaves every stored
\* row in place and unaltered and only appends, and a row disappears only in
\* the commit of one of the two cleanup operations.
C21_ExecuteOnlyAppends ==
    [][/\ (\E t \in Threads : op[t] = "execute" /\ Acts(t)) =>
             /\ Len(executions') >= Len(executions)
             /\ SubSeq(executions', 1, Len(executions)) = executions
       /\ ~RowsKept => CleanupCommits]_vars

\* An execute_endpoint call stored its row next to a row that was there
\* before it, and a cleanup removed another row.
C21_Witness ==
    \E t, u \in Threads :
        /\ pc[t] = "idle" /\ op[t] = "execute" /\ Len(hist[t].written) = 1
        /\ hist[u].removed # {}
        /\ \E i \in 1..Len(executions) : executions[i].id \in 1..LogRows

\* --------------------------------------------------------------------- C22
\* C22: the name translation maps SalesOrder to sales_order, GL to gl and
\* InventoryItem to inventory_item, maps every lower-case name to itself, and
\* applied to its own output returns that output.
C22_NameTranslation ==
    \A t \in Threads :
        op[t] = "_pascal_to_snake" =>
            LET name == loc[t].param
                out == ret[t].val
            IN /\ name = SalesOrder =>
                    out = <<"s", "a", "l", "e", "s", "_", "o", "r", "d", "e", "r">>
               /\ name = GL => out = <<"g", "l">>
               /\ name = InventoryItem =>
                    out = <<"i", "n", "v", "e", "n", "t", "o", "r", "y", "_",
                            "i", "t", "e", "m">>
               /\ name = Lower(name) => out = name
               /\ pascal_to_snake(out) = out

\* --------------------------------------------------------------------- C23
\* the declared type is a union that lists None
UnionWithNone(python_type) ==
    /\ Contains(python_type, <<"|">>)
    /\ Len(NonNoneTypes(python_type)) < Len(Split(python_type, "|"))
    /\ NonNoneTypes(python_type) # <<>>

\* C23: in a parsed signature, a parameter declared as a union with None gets
\* the type of its first alternative that is not None, and when that is its
\* only such alternative the parameter is optional: not required, and not in
\* the required list of the request schema, default or no default.
C23_UnionWithNoneIsOptional ==
    \A t \in Threads :
        op[t] = "_parse_signature_string" =>
            \A i \in 1..Len(ret[t].val.parameters) :
                LET param == ret[t].val.parameters[i]
                    alternatives == NonNoneTypes(param.type.python_type)
                    required == generate_request_schema(ret[t].val).required
                IN UnionWithNone(param.type.python_type) =>
                      /\ param.type.type = python_type_to_json_type(alternatives[1])
                      /\ Len(alternatives) = 1 =>
                            /\ ~param.required
                            /\ \A j \in 1..Len(required) : required[j] # param.name

\* --------------------------------------------------------------------- C24
JsonTypes == {"string", "integer", "number", "boolean", "array", "object", "null", "any"}
KnownKeywords ==
    {<<"s", "t", "r">>, <<"s", "t", "r", "i", "n", "g">>, <<"i", "n", "t">>, <<"i", "n", "t", "e", "g", "e", "r">>,
     <<"f", "l", "o", "a", "t">>, <<"n", "u", "m", "b", "e", "r">>, <<"d", "e", "c", "i", "m", "a", "l">>, <<"b", "o", "o", "l">>, <<"b", "o", "o", "l", "e", "a", "n">>,
     <<"l", "i", "s", "t">>, <<"a", "r", "r", "a", "y">>, <<"d", "i", "c", "t">>, <<"o", "b", "j", "e", "c", "t">>, <<"n", "o", "n", "e">>, <<"n", "u", "l", "l">>}

\* C24: type normalisation returns a member of the vocabulary, array for every
\* name whose lower-cased text contains "list" or "array", and object for a
\* name containing none of the known keywords.
C24_TypeNormalisation ==
    \A t \in Threads :
        op[t] = "_python_type_to_json_type" =>
            LET lowered == Lower(loc[t].param)
            IN /\ ret[t].val \in JsonTypes
               /\ (Contains(lowered, <<"l", "i", "s", "t">>) \/ Contains(lowered, <<"a", "r", "r", "a", "y">>))
                     => ret[t].val = "array"
               /\ ~AnyKeyword(lowered, KnownKeywords) => ret[t].val = "object"

\* --------------------------------------------------------------------- C25
\* the names of the given parameters, in order
NamesOf(params) == [i \in 1..Len(params) |-> params[i].name]

\* C25: for every signature get_complete_schema works from, the example
\* request has a key for every name in the request schema's required list,
\* and that list holds exactly the parameters that have no default, in order.
C25_ExampleCoversRequired ==
    \A t \in Threads :
        op[t] = "get_complete_schema" =>
            LET required == ret[t].val.request_schema.required
                example == ret[t].val.example_request
                params == ret[t].val.signature.parameters
            IN /\ \A i \in 1..Len(required) : required[i] \in DOMAIN example
               /\ required = NamesOf(SelectSeq(params, LAMBDA param : param.default.is_none))

\* A schema built from a parsed signature with two parameters, one required
\* and one with a default that the example request quotes.
C25_Witness ==
    \E t \in Threads :
        /\ op[t] = "get_complete_schema" /\ loc[t].param.registry = "str"
        /\ Len(ret[t].val.signature.parameters) = 2
        /\ Len(ret[t].val.request_schema.required) = 1
        /\ \E n \in DOMAIN ret[t].val.example_request :
              ret[t].val.example_request[n] = [kind |-> "str", text |-> <<"5">>]

\* --------------------------------------------------------------------- C26
\* nothing can be learnt from the service object: get_signature raises
\* something other than ValueError or AttributeError, or it gives no usable
\* string and the method is missing or cannot be inspected, or the string it
\* gives has no parenthesised part
NothingToIntrospect(service_obj) ==
    \/ service_obj.registry \in {"other", "not_str"}
    \/ /\ service_obj.registry \in {"absent", "lookup"} \/ service_obj.text = <<>>
       /\ service_obj.method \in {"missing", "opaque"}
    \/ /\ service_obj.registry = "str" /\ service_obj.text # <<>>
       /\ ParamsStr(service_obj.text).is_none

\* C26: get_complete_schema returns, with an empty parameter list, for a
\* service object nothing can be learnt from; and a create_endpoint request
\* that passed its checks stores the endpoint and answers 201 whatever the
\* introspection found, unless the database commit itself raises.
C26_IntrospectionNeverAborts ==
    \A t \in Threads :
        op[t] = "create_endpoint" =>
            /\ (/\ pc[t] \in {"ce_persist", "idle"}
                /\ loc[t].param # <<>>
                /\ loc[t].param.outcome = "introspected"
                /\ NothingToIntrospect(loc[t].param.service_obj))
                  => /\ loc[t].param.signature.parameters = <<>>
                     /\ loc[t].param.request_schema.required = <<>>
            /\ (pc[t] = "idle" /\ ret[t].val \notin {400, 404, 409})
                  => \/ ret[t].val = 201 /\ endpoints[arg[t]] # "missing"
                     \/ ret[t] = Response(500, CommitFailed)

\* An endpoint was stored although its tenant was not connected, and another
\* although get_signature raised.
C26_Witness ==
    \E t, u \in Threads :
        /\ pc[t] = "idle" /\ op[t] = "create_endpoint" /\ ret[t].val = 201
        /\ loc[t].param.outcome = "not_connected"
        /\ pc[u] = "idle" /\ op[u] = "create_endpoint" /\ ret[u].val = 201
        /\ loc[u].param.outcome = "introspected"
        /\ loc[u].param.service_obj.registry = "other"
        /\ endpoints[arg[t]] # "missing"

\* --------------------------------------------------------------------- C27
\* C27: an execute_endpoint call that came through the external route runs
\* for the tenant its API key belongs to.
C27_KeyTenantIsExecuted ==
    \A t \in Threads :
        (op[t] = "execute" /\ hist[t].key # NoKey) => arg[t] = hist[t].key

\* --------------------------------------------------------------------- C28
\* thread t takes or leaves the lock it holds in this step
TakesLock(t, c) == locks[c] = NoThread /\ locks'[c] = t /\ Acts(t)
LeavesLock(t, c) == locks[c] = t /\ locks'[c] = NoThread /\ Acts(t)
\* one lock for tenant c is stored, by the thread inside the pool-wide lock
\* whose test found none
StoresLock(c) ==
    /\ locks'[c] = NoThread
    /\ globalLock \in Threads
    /\ pc[globalLock] = "gc_mklock" /\ arg[globalLock] = c
    /\ ~loc[globalLock].has_lock

\* C28: creating a tenant's lock on first use is race-free: a lock is stored
\* only for a tenant that has none, by the one thread inside the pool-wide
\* lock, and a stored lock is never removed or replaced -- it changes only
\* when a thread takes it free or its holder leaves it.
C28_LockCreationRaceFree ==
    [][/\ DOMAIN locks \subseteq DOMAIN locks'
       /\ \A c \in DOMAIN locks' \ DOMAIN locks : StoresLock(c)
       /\ \A c \in DOMAIN locks :
              locks'[c] # locks[c] =>
                  \E t \in Threads : TakesLock(t, c) \/ LeavesLock(t, c)]_vars

\* Two calls raced on a tenant that had no lock: the first found none, stored
\* one and holds it; the second, already running when the first began its
\* test, found that lock and waits for it.
C28_Witness ==
    \E a, b \in Threads :
        /\ a # b /\ arg[a] = arg[b]
        /\ op[a] = "get_connection" /\ op[b] = "get_connection"
        /\ arg[a] \in DOMAIN locks /\ locks[arg[a]] = a
        /\ ~loc[a].has_lock
        /\ pc[b] = "gc_acquire" /\ loc[b].has_lock
        /\ a \in hist[b].with

\* --------------------------------------------------------------------- C29
\* thread t is at one of execute_endpoint's two lookups (lines 54-94)
Resolving(t) == op[t] = "execute" /\ pc[t] \in {"ex_group", "ex_endpoint"}
\* the service group or the endpoint of t's call is missing or inactive
Unresolvable(t) == groups[arg[t]] # "active" \/ endpoints[arg[t]] # "active"

\* C29: a lookup step of an execute call whose service group or endpoint is
\* missing or inactive never enters the pool: it either passes from the group
\* lookup to the endpoint lookup or returns 403/404, it leaves the pool's
\* entries, their last-used times, its locks and every session as they were,
\* and the call has made no login(), no logout() and no remote invocation.
C29_UnresolvedLeavesPoolAlone ==
    [][\A t \in Threads :
          (Resolving(t) /\ Unresolvable(t) /\ Acts(t)) =>
              /\ \/ pc[t] = "ex_group" /\ groups[arg[t]] = "active"
                    /\ pc'[t] = "ex_endpoint"
                 \/ pc'[t] = "idle" /\ ret'[t].val \in {403, 404}
              /\ UNCHANGED <<connections, locks, globalLock, sessions>>
              /\ hist'[t].logins = 0 /\ hist'[t].logouts = 0
              /\ hist'[t].remote = "none"
              /\ hist'[t].seen = NoEntry /\ hist'[t].stored = NoEntry]_vars

\* A call against an inactive service group was refused while the pool held
\* another tenant's session, which is still cached and logged in.
C29_Witness ==
    \E t \in Threads :
        /\ ExecDone(t)
        /\ groups[arg[t]] = "inactive" /\ ret[t].val = 403
        /\ hist[t].logins = 0 /\ hist[t].remote = "none"
        /\ \E c \in DOMAIN connections :
              /\ connections[c].sess # NoSession
              /\ sessions[connections[c].sess].logouts = 0

\* --------------------------------------------------------------------- C30
\* thread t's get_connection returns a session in this step
ReturnsSession(t) ==
    /\ op[t] = "get_connection" /\ pc[t] # "idle"
    /\ pc'[t] = "idle" /\ ret'[t].kind = "handle"

\* C30: the pool never keeps or hands out a dead session: whenever a step
\* leaves no call in progress, no cached handle has had logout() invoked on
\* it, and a handle get_connection returns has had no logout() invoked on it
\* as the call returns.
C30_NoDeadSession ==
    [][/\ (\A t \in Threads : pc'[t] = "idle") =>
              \A c \in DOMAIN connections' : sessions'[connections'[c].sess].logouts = 0
       /\ \A t \in Threads :
              ReturnsSession(t) => sessions'[ret'[t].val].logouts = 0]_vars

====
